---- MODULE Spec2Model ----
(***************************************************************************)
(* A model of the inert polyfill (src/inert.js): InertManager, InertRoot,  *)
(* InertElement and composedTreeWalk, driven by a page script that calls   *)
(* the programmatic API and edits the DOM, and by the browser's            *)
(* MutationObserver delivery.                                               *)
(*                                                                         *)
(* JavaScript objects are modelled with identity: an InertRoot or an       *)
(* InertElement is a pair <<element, generation>>, so that a stale object   *)
(* and a fresh one for the same element are different values.              *)
(***************************************************************************)
EXTENDS Integers, Sequences, FiniteSets, TLC

\* ------------------------------------------------------------------ bounds

\* page-script operations along one behaviour
MaxOps == 2
\* extra generations of InertRoot / InertElement objects per element
MaxGen == 1
\* page-script operations along one behaviour of InertOpsSpec
MaxInertOps == 3
\* page-script operations along one behaviour of MoveSpec
MaxMoveOps == 3

\* ------------------------------------------------------------ the document

None == "none"
Body == "body"
\* A and B are <div> containers; x is a leaf that is either a <button> or a
\* <div>, which the author may give a tabindex attribute.
Elements == {"A", "B", "x"}
Nodes == Elements \cup {Body}
Containers == {Body, "A", "B"}
\* the elements that may be <button>s
Leaves == {"x"}
\* the elements the page script inserts, and those it removes
Insertable == {"A", "B", "x"}
Removable == {"B", "x"}
\* elements the page script marks or activates as inert roots
RootCandidates == {"A", "B"}
\* tabindex attribute values the author writes; "01" is a valid integer that
\* is not in canonical form
TabInputs == {"-1", "0", "01"}
\* the tabindex attribute of the leaf in the initial documents
InitTabs == {None, "-1", "0"}

NoErr == "none"
TypeError == "TypeError"
DestroyedError == "Trying to access destroyed InertElement"
\* not an exception of the program: the model ran out of object identities
MissingDocument == "Missing required argument; InertManager needs to wrap a document."
IdsExhausted == "MaxGen exceeded"

Range(s) == {s[i] : i \in DOMAIN s}

RECURSIVE SetToSeq(_)
\* an enumeration of a finite set (iteration over a JavaScript Set; every
\* loop of the program over a Set acts on distinct objects per iteration)
SetToSeq(S) ==
  IF S = {} THEN <<>>
  ELSE LET m == CHOOSE m \in S : TRUE IN <<m>> \o SetToSeq(S \ {m})

\* Node.parentNode
ParentOf(ch, n) ==
  IF \E p \in Nodes : n \in Range(ch[p])
  THEN CHOOSE p \in Nodes : n \in Range(ch[p])
  ELSE None

RECURSIVE InclAncestors(_, _)
InclAncestors(ch, n) ==
  IF n = None THEN {} ELSE {n} \cup InclAncestors(ch, ParentOf(ch, n))

\* Node.contains(other): other is an inclusive descendant of n
Contains(ch, n, other) == n \in InclAncestors(ch, other)

RECURSIVE DescendantsSeq(_, _)
RECURSIVE DescendantsOfAll(_, _)
\* the descendants of n in document order (the order of querySelectorAll)
DescendantsSeq(ch, n) == DescendantsOfAll(ch, ch[n])
DescendantsOfAll(ch, s) ==
  IF s = <<>> THEN <<>>
  ELSE <<Head(s)>> \o DescendantsSeq(ch, Head(s)) \o DescendantsOfAll(ch, Tail(s))

\* element.shadowRoot || element.webkitShadowRoot: no element of the modelled
\* documents hosts a shadow root
ShadowRootOf(n) == None
\* element.localName == 'content'
IsContentElement(n) == FALSE
\* content.getDistributedNodes()
DistributedNodes(ch, n) == <<>>

RECURSIVE composedTreeWalk(_, _)
RECURSIVE WalkAll(_, _)
\* The sequence of elements on which composedTreeWalk invokes its callback.
\* The callbacks of the program never change the tree, so the visiting order
\* is a function of the tree alone.
composedTreeWalk(ch, node) ==
  <<node>> \o
  (IF ShadowRootOf(node) # None
   THEN composedTreeWalk(ch, ShadowRootOf(node))
   ELSE IF IsContentElement(node)
   THEN WalkAll(ch, DistributedNodes(ch, node))
   ELSE WalkAll(ch, ch[node]))
WalkAll(ch, s) ==
  IF s = <<>> THEN <<>>
  ELSE composedTreeWalk(ch, Head(s)) \o WalkAll(ch, Tail(s))

\* ------------------------------------------------- attribute conversions

\* the rules for parsing integers applied to a tabindex attribute value
ParseInt(s) ==
  CASE s = "-1" -> -1
    [] s = "0" -> 0
    [] s = "1" -> 1
    [] s = "01" -> 1

\* String(number), as setAttribute converts its value argument
NumToString(n) ==
  CASE n = -1 -> "-1"
    [] n = 0 -> "0"
    [] n = 1 -> "1"

\* the element.tabIndex getter: the parsed attribute, or the element's
\* default (0 for a natively focusable element, -1 otherwise)
TabIndexProp(W, e) ==
  IF W.tab[e] = None
  THEN (IF e \in W.buttons THEN 0 ELSE -1)
  ELSE ParseInt(W.tab[e])

\* element.matches(_focusableElementsString): of the modelled elements the
\* <button>s match (button:not([disabled]))
Matches(W, e) == e \in W.buttons

\* ------------------------------------------------------- object identity

ObjIds == Elements \X (0..MaxGen)
\* the InertManager's MutationObserver (observes document.body)
MgrObs == <<Body, 0>>
ObserverIds == ObjIds \cup {MgrObs}
NoObj == <<None, 0>>

\* an unused object for element e is left
HasFreeId(objs, e) == \E g \in 0..MaxGen : ~objs[<<e, g>>].used

\* the next unused object for element e
NewId(objs, e) ==
  <<e, CHOOSE g \in 0..MaxGen :
         /\ ~objs[<<e, g>>].used
         /\ \A h \in 0..MaxGen : ~objs[<<e, h>>].used => g <= h>>

\* an unallocated InertRoot / InertElement slot
FreeRoot == [used |-> FALSE, el |-> None, managed |-> {}]
FreeRec ==
  [used |-> FALSE, el |-> None, overrode |-> FALSE, inertRoots |-> {},
   destroyed |-> FALSE, hasSaved |-> FALSE, saved |-> 0]

\* ------------------------------------------------- the DOM's primitives
\* W is the whole heap: the tree (ch), the elements that are <button>s
\* (buttons), the attributes (tab, inert, aria), the
\* elements' own focus property (focus), the InertRoot and InertElement
\* objects (roots, recs), the InertManager's two maps (mRoots, mElems), the
\* MutationObservers in creation order (observers) with their record queues
\* (queue) and transient registrations (transient), and the exception that
\* is propagating, if any (err).

Throw(W, e) == IF W.err = NoErr THEN [W EXCEPT !.err = e] ELSE W

\* the observers registered (subtree: true) on an inclusive ancestor of t
Receivers(W, t) ==
  {o \in Range(W.observers) :
     \E a \in InclAncestors(W.ch, t) : a = o[1] \/ <<o, a>> \in W.transient}

\* The records a callback acts on, decided by the record's type, name and
\* target alone: _watchForInert reads addedNodes and 'inert' attribute
\* records; _onMutation reads childList records, 'tabindex' records, and
\* 'inert' records whose target is not its own root element. Every other
\* record falls through both callbacks without effect and is left out of the
\* queues.
Wants(o, rec) ==
  IF o = MgrObs
  THEN rec.type = "added" \/ (rec.type = "attributes" /\ rec.name = "inert")
  ELSE \/ rec.type \in {"added", "removed"}
       \/ rec.type = "attributes" /\ rec.name = "tabindex"
       \/ rec.type = "attributes" /\ rec.name = "inert" /\ rec.target # o[1]

\* queue a mutation record for target t
Enqueue(W, t, rec) ==
  LET receivers == {o \in Receivers(W, t) : Wants(o, rec)} IN
  IF receivers = {} THEN W
  ELSE [W EXCEPT !.queue =
          [o \in ObserverIds |->
             IF o \in receivers THEN Append(W.queue[o], rec) ELSE W.queue[o]]]

AttrRecord(t, name) ==
  [type |-> "attributes", target |-> t, name |-> name, node |-> None]

\* element.setAttribute('tabindex', v): always queues a record
SetTabindexAttr(W, e, v) ==
  Enqueue([W EXCEPT !.tab[e] = v], e, AttrRecord(e, "tabindex"))

\* element.removeAttribute('tabindex'): nothing happens when it is absent
RemoveTabindexAttr(W, e) ==
  IF W.tab[e] = None THEN W
  ELSE Enqueue([W EXCEPT !.tab[e] = None], e, AttrRecord(e, "tabindex"))

\* element.setAttribute('inert', '')
SetInertAttr(W, e) ==
  Enqueue([W EXCEPT !.inert[e] = TRUE], e, AttrRecord(e, "inert"))

\* element.removeAttribute('inert')
RemoveInertAttr(W, e) ==
  IF ~W.inert[e] THEN W
  ELSE Enqueue([W EXCEPT !.inert[e] = FALSE], e, AttrRecord(e, "inert"))

\* element.setAttribute('aria-hidden', 'true')
SetAriaHidden(W, e) ==
  Enqueue([W EXCEPT !.aria[e] = "true"], e, AttrRecord(e, "aria-hidden"))

\* element.removeAttribute('aria-hidden')
RemoveAriaHidden(W, e) ==
  IF W.aria[e] = None THEN W
  ELSE Enqueue([W EXCEPT !.aria[e] = None], e, AttrRecord(e, "aria-hidden"))

\* ---------------------------------------------------------- InertElement

\* InertElement._throwIfDestroyed
ThrowIfDestroyed(W, r) ==
  IF W.recs[r].destroyed THEN Throw(W, DestroyedError) ELSE W

\* The getters and the setter of InertElement: the heap after the access (err
\* set when it threw) and the value it returned.
\* get element: `this._throwIfDestroyed;` names the method without calling
\* it, so the getter returns this._element, undefined once destroyed
GetElement(W, r) == [heap |-> W, value |-> W.recs[r].el]
\* get savedTabIndex
GetSavedTabIndex(W, r) ==
  [heap |-> ThrowIfDestroyed(W, r),
   value |-> IF W.recs[r].destroyed \/ ~W.recs[r].hasSaved THEN None
             ELSE NumToString(W.recs[r].saved)]
\* set savedTabIndex
SetSavedTabIndex(W, r, tabIndex) ==
  IF W.recs[r].destroyed THEN Throw(W, DestroyedError)
  ELSE [W EXCEPT !.recs[r].hasSaved = TRUE, !.recs[r].saved = tabIndex]

\* ensureUntabbable removing the tabindex of an element outside the whitelist
\* without saving it first
ensureUntabbableRemovesUnsaved(W, r) ==
  IF W.err # NoErr THEN W
  ELSE
  LET element == W.recs[r].el IN
  IF element = None THEN Throw(W, TypeError)
  ELSE IF Matches(W, element)
  THEN IF TabIndexProp(W, element) = -1 /\ W.recs[r].hasSaved
       THEN W
       ELSE LET W1 == IF W.tab[element] # None
                      THEN [W EXCEPT !.recs[r].hasSaved = TRUE,
                                     !.recs[r].saved = TabIndexProp(W, element)]
                      ELSE W
                W2 == SetTabindexAttr(W1, element, "-1")
            IN [W2 EXCEPT !.focus[element] = TRUE, !.recs[r].overrode = TRUE]
  ELSE RemoveTabindexAttr(W, element)

\* InertElement.ensureUntabbable. The element getter never throws (it names
\* _throwIfDestroyed without calling it) and yields undefined once the
\* record is destroyed, so element.blur() raises a TypeError then.
ensureUntabbable(W, r) ==
  IF W.err # NoErr THEN W
  ELSE
  LET element == W.recs[r].el IN
  IF element = None THEN Throw(W, TypeError)
  ELSE IF Matches(W, element)
  THEN IF TabIndexProp(W, element) = -1 /\ W.recs[r].hasSaved
       THEN W
       ELSE LET W1 == IF W.tab[element] # None
                      THEN [W EXCEPT !.recs[r].hasSaved = TRUE,
                                     !.recs[r].saved = TabIndexProp(W, element)]
                      ELSE W
                W2 == SetTabindexAttr(W1, element, "-1")
            IN [W2 EXCEPT !.focus[element] = TRUE, !.recs[r].overrode = TRUE]
  ELSE IF W.tab[element] # None
  THEN RemoveTabindexAttr(
         [W EXCEPT !.recs[r].hasSaved = TRUE,
                   !.recs[r].saved = TabIndexProp(W, element)], element)
  ELSE W

\* new InertElement(element, inertRoot)
NewInertElement(W, r, element, root) ==
  IF W.err # NoErr THEN W
  ELSE ensureUntabbable(
         [W EXCEPT !.recs[r] =
            [used |-> TRUE, el |-> element, overrode |-> FALSE,
             inertRoots |-> {root}, destroyed |-> FALSE,
             hasSaved |-> FALSE, saved |-> 0]], r)

\* A destructor that tests the saved value for truthiness instead of
\* hasSavedTabIndex: a saved 0 is taken for "nothing saved".
InertElementDestructorTruthy(W, r) ==
  IF W.err # NoErr THEN W
  ELSE IF W.recs[r].destroyed THEN Throw(W, DestroyedError)
  ELSE
  LET element == W.recs[r].el
      deleteFocus(Wa) ==
        IF W.recs[r].overrode THEN [Wa EXCEPT !.focus[element] = FALSE] ELSE Wa
      W1 == IF element = None THEN W
            ELSE deleteFocus(IF W.recs[r].hasSaved /\ W.recs[r].saved # 0
                             THEN SetTabindexAttr(W, element,
                                                  NumToString(W.recs[r].saved))
                             ELSE RemoveTabindexAttr(W, element))
  IN [W1 EXCEPT !.recs[r].el = None, !.recs[r].inertRoots = {},
                !.recs[r].destroyed = TRUE]

\* A destructor that forgets `delete this._element.focus`.
InertElementDestructorKeepsFocus(W, r) ==
  IF W.err # NoErr THEN W
  ELSE IF W.recs[r].destroyed THEN Throw(W, DestroyedError)
  ELSE
  LET element == W.recs[r].el
      W1 == IF element = None THEN W
            ELSE IF W.recs[r].hasSaved
            THEN SetTabindexAttr(W, element, NumToString(W.recs[r].saved))
            ELSE RemoveTabindexAttr(W, element)
  IN [W1 EXCEPT !.recs[r].el = None, !.recs[r].inertRoots = {},
                !.recs[r].destroyed = TRUE]

\* A destructor without the call of _throwIfDestroyed.
InertElementDestructorUnguarded(W, r) ==
  IF W.err # NoErr THEN W
  ELSE
  LET element == W.recs[r].el
      deleteFocus(Wa) ==
        IF W.recs[r].overrode THEN [Wa EXCEPT !.focus[element] = FALSE] ELSE Wa
      W1 == IF element = None THEN W
            ELSE deleteFocus(IF W.recs[r].hasSaved
                             THEN SetTabindexAttr(W, element,
                                                  NumToString(W.recs[r].saved))
                             ELSE RemoveTabindexAttr(W, element))
  IN [W1 EXCEPT !.recs[r].el = None, !.recs[r].inertRoots = {},
                !.recs[r].destroyed = TRUE]

\* InertElement.destructor
InertElementDestructor(W, r) ==
  IF W.err # NoErr THEN W
  ELSE IF W.recs[r].destroyed THEN Throw(W, DestroyedError)
  ELSE
  LET element == W.recs[r].el
      deleteFocus(Wa) ==
        IF W.recs[r].overrode THEN [Wa EXCEPT !.focus[element] = FALSE] ELSE Wa
      W1 == IF element = None THEN W
            ELSE deleteFocus(IF W.recs[r].hasSaved
                             THEN SetTabindexAttr(W, element,
                                                  NumToString(W.recs[r].saved))
                             ELSE RemoveTabindexAttr(W, element))
  IN [W1 EXCEPT !.recs[r].el = None, !.recs[r].inertRoots = {},
                !.recs[r].destroyed = TRUE]

\* InertElement.addInertRoot
addInertRoot(W, r, root) ==
  IF W.err # NoErr THEN W
  ELSE IF W.recs[r].destroyed THEN Throw(W, DestroyedError)
  ELSE [W EXCEPT !.recs[r].inertRoots = @ \cup {root}]

\* A removeInertRoot that destroys the record at every deregistration,
\* whether or not other roots still claim it.
removeInertRootEager(W, r, root) ==
  IF W.err # NoErr THEN W
  ELSE IF W.recs[r].destroyed THEN Throw(W, DestroyedError)
  ELSE InertElementDestructor([W EXCEPT !.recs[r].inertRoots = @ \ {root}], r)

\* InertElement.removeInertRoot
removeInertRoot(W, r, root) ==
  IF W.err # NoErr THEN W
  ELSE IF W.recs[r].destroyed THEN Throw(W, DestroyedError)
  ELSE LET W1 == [W EXCEPT !.recs[r].inertRoots = @ \ {root}]
       IN IF W1.recs[r].inertRoots = {}
          THEN InertElementDestructor(W1, r) ELSE W1

\* ---------------------------------------------- InertManager's registries

\* InertManager.getInertRoot
getInertRoot(W, element) == W.mRoots[element]

\* A register that does not look the element up and constructs a record at
\* every call.
registerAlwaysNew(W, element, root) ==
  IF W.err # NoErr THEN W
  ELSE IF ~HasFreeId(W.recs, element) THEN Throw(W, IdsExhausted)
  ELSE LET id == NewId(W.recs, element)
           set(W1) ==
             IF W1.err # NoErr THEN W1 ELSE [W1 EXCEPT !.mElems[element] = id]
       IN set(NewInertElement(W, id, element, root))

\* InertManager.register: the record registered for element is W'.mElems[element]
register(W, element, root) ==
  IF W.err # NoErr THEN W
  ELSE
  LET inertElement == W.mElems[element] IN
  IF inertElement # NoObj
  THEN ensureUntabbable(addInertRoot(W, inertElement, root), inertElement)
  ELSE IF ~HasFreeId(W.recs, element) THEN Throw(W, IdsExhausted)
  ELSE LET id == NewId(W.recs, element)
           set(W1) ==
             IF W1.err # NoErr THEN W1 ELSE [W1 EXCEPT !.mElems[element] = id]
       IN set(NewInertElement(W, id, element, root))

\* A deregister that drops every claimant of the record, not only inertRoot.
deregisterEveryRoot(W, element, root) ==
  IF W.err # NoErr THEN W
  ELSE
  LET inertElement == W.mElems[element] IN
  IF inertElement = NoObj THEN W
  ELSE LET delete(W1) ==
             IF W1.err # NoErr THEN W1
             ELSE [W1 EXCEPT !.mElems[element] = NoObj]
       IN delete(InertElementDestructor(
                   [W EXCEPT !.recs[inertElement].inertRoots = {}], inertElement))

\* A deregister that drops the element from the element map whether or not
\* its record was destroyed.
deregisterForgets(W, element, root) ==
  IF W.err # NoErr THEN W
  ELSE
  LET inertElement == W.mElems[element] IN
  IF inertElement = NoObj THEN W
  ELSE LET delete(W1) ==
             IF W1.err # NoErr THEN W1
             ELSE [W1 EXCEPT !.mElems[element] = NoObj]
       IN delete(removeInertRoot(W, inertElement, root))

\* InertManager.deregister: returns the record W.mElems[element] (NoObj for null)
deregister(W, element, root) ==
  IF W.err # NoErr THEN W
  ELSE
  LET inertElement == W.mElems[element] IN
  IF inertElement = NoObj THEN W
  ELSE LET delete(W1) ==
             IF W1.err # NoErr THEN W1
             ELSE IF W1.recs[inertElement].destroyed
             THEN [W1 EXCEPT !.mElems[element] = NoObj]
             ELSE W1
       IN delete(removeInertRoot(W, inertElement, root))

\* what deregister returns: the record it looked up first, null (NoObj)
\* when the element has none; nothing is returned when removeInertRoot throws
deregisterReturns(W, element, root) ==
  IF deregister(W, element, root).err # NoErr THEN None
  ELSE W.mElems[element]

\* ------------------------------------------------------------- InertRoot

\* InertRoot._manageElement. With element undefined the InertElement
\* constructor fails in ensureUntabbable with a TypeError, as does any use of
\* a root whose fields the destructor has deleted.
manageElement(W, root, element) ==
  IF W.err # NoErr THEN W
  ELSE IF element = None \/ W.roots[root].el = None THEN Throw(W, TypeError)
  ELSE LET add(W1) ==
             IF W1.err # NoErr THEN W1
             ELSE [W1 EXCEPT !.roots[root].managed = @ \cup {W1.mElems[element]}]
       IN add(register(W, element, root))

\* An _unmanageNode that leaves the record in the root's _managedElements.
unmanageNodeKeepsRecord(W, root, node) ==
  IF W.err # NoErr THEN W
  ELSE IF node = None THEN Throw(W, TypeError)
  ELSE deregister(W, node, root)

\* InertRoot._unmanageNode (node.nodeType on undefined is a TypeError)
unmanageNode(W, root, node) ==
  IF W.err # NoErr THEN W
  ELSE IF node = None THEN Throw(W, TypeError)
  ELSE LET inertElement == W.mElems[node]
           delete(W1) ==
             IF W1.err # NoErr \/ inertElement = NoObj THEN W1
             ELSE [W1 EXCEPT !.roots[root].managed = @ \ {inertElement}]
       IN delete(deregister(W, node, root))

RECURSIVE unmanageNodes(_, _, _)
\* _unmanageNode on each node of a sequence
unmanageNodes(W, root, nodes) ==
  IF nodes = <<>> \/ W.err # NoErr THEN W
  ELSE unmanageNodes(unmanageNode(W, root, Head(nodes)), root, Tail(nodes))

\* InertRoot._unmanageSubtree
unmanageSubtree(W, root, startNode) ==
  unmanageNodes(W, root, composedTreeWalk(W.ch, startNode))

RECURSIVE unmanageRecords(_, _, _)
\* the loop of InertRoot.destructor over the live Set _managedElements:
\* _unmanageNode(inertElement.element) for each record still in the set when
\* the iteration reaches it
unmanageRecords(W, root, visited) ==
  LET todo == W.roots[root].managed \ visited IN
  IF todo = {} \/ W.err # NoErr THEN W
  ELSE LET r == CHOOSE r \in todo : TRUE
       IN unmanageRecords(unmanageNode(W, root, W.recs[r].el), root,
                          visited \cup {r})

\* MutationObserver.disconnect: the observer leaves the list, its queued
\* records are dropped
Disconnect(W, o) ==
  [W EXCEPT !.observers = SelectSeq(@, LAMBDA p : p # o),
            !.queue[o] = <<>>,
            !.transient = {t \in @ : t[1] # o}]

\* A destructor that leaves the observer connected.
InertRootDestructorKeepsObserver(W, root) ==
  IF W.err # NoErr THEN W
  ELSE LET deleteRootElement(W1) == [W1 EXCEPT !.roots[root].el = None]
           deleteManagedElements(W2) ==
             IF W2.err # NoErr THEN W2
             ELSE [W2 EXCEPT !.roots[root].managed = {}]
       IN deleteManagedElements(
            unmanageRecords(
              deleteRootElement(RemoveAriaHidden(W, W.roots[root].el)),
              root, {}))

\* InertRoot.destructor
InertRootDestructor(W, root) ==
  IF W.err # NoErr THEN W
  ELSE LET deleteRootElement(W1) == [W1 EXCEPT !.roots[root].el = None]
           deleteManagedElements(W2) ==
             IF W2.err # NoErr THEN W2
             ELSE [W2 EXCEPT !.roots[root].managed = {}]
       IN deleteManagedElements(
            unmanageRecords(
              deleteRootElement(
                RemoveAriaHidden(Disconnect(W, root), W.roots[root].el)),
              root, {}))

RECURSIVE setInert(_, _, _)
RECURSIVE NewInertRoot(_, _, _)
RECURSIVE makeSubtreeUnfocusable(_, _, _)
RECURSIVE visitNodes(_, _, _)
RECURSIVE visitNode(_, _, _)
RECURSIVE adoptInertRoot(_, _, _)
RECURSIVE manageRecords(_, _, _)

\* the loop of _adoptInertRoot: _manageElement(savedInertElement.element)
manageRecords(W, root, rs) ==
  IF rs = <<>> \/ W.err # NoErr THEN W
  ELSE manageRecords(manageElement(W, root, W.recs[Head(rs)].el), root, Tail(rs))

\* InertRoot._adoptInertRoot
adoptInertRoot(W, root, element) ==
  IF W.err # NoErr THEN W
  ELSE LET adopt(W1) ==
             IF W1.err # NoErr THEN W1
             ELSE manageRecords(W1, root,
                    SetToSeq(W1.roots[getInertRoot(W1, element)].managed))
       IN adopt(IF getInertRoot(W, element) = NoObj
                THEN setInert(W, element, TRUE) ELSE W)

\* A _visitNode that tests the whitelist only, not the tabindex attribute.
visitNodeWhitelistOnly(W, root, node) ==
  IF W.err # NoErr THEN W
  ELSE LET manage(W1) ==
             IF W1.err # NoErr THEN W1
             ELSE IF Matches(W1, node)
             THEN manageElement(W1, root, node)
             ELSE W1
       IN manage(IF node # W.roots[root].el /\ W.inert[node]
                 THEN adoptInertRoot(W, root, node) ELSE W)

\* InertRoot._visitNode
visitNode(W, root, node) ==
  IF W.err # NoErr THEN W
  ELSE LET manage(W1) ==
             IF W1.err # NoErr THEN W1
             ELSE IF Matches(W1, node) \/ W1.tab[node] # None
             THEN manageElement(W1, root, node)
             ELSE W1
       IN manage(IF node # W.roots[root].el /\ W.inert[node]
                 THEN adoptInertRoot(W, root, node) ELSE W)

visitNodes(W, root, nodes) ==
  IF nodes = <<>> \/ W.err # NoErr THEN W
  ELSE visitNodes(visitNode(W, root, Head(nodes)), root, Tail(nodes))

\* InertRoot._makeSubtreeUnfocusable
makeSubtreeUnfocusable(W, root, startNode) ==
  visitNodes(W, root, composedTreeWalk(W.ch, startNode))

\* An InertRoot constructor that does not walk the subtree.
NewInertRootNoWalk(W, root, rootElement) ==
  IF W.err # NoErr THEN W
  ELSE [SetAriaHidden(
          [W EXCEPT !.roots[root] =
             [used |-> TRUE, el |-> rootElement, managed |-> {}]],
          rootElement)
        EXCEPT !.observers = Append(@, root)]

\* new InertRoot(rootElement, inertManager): the observer is created after
\* the walk, so it sees none of the walk's attribute changes
NewInertRoot(W, root, rootElement) ==
  IF W.err # NoErr THEN W
  ELSE LET observe(W2) ==
             IF W2.err # NoErr THEN W2
             ELSE [W2 EXCEPT !.observers = Append(@, root)]
       IN observe(
            makeSubtreeUnfocusable(
              SetAriaHidden(
                [W EXCEPT !.roots[root] =
                   [used |-> TRUE, el |-> rootElement, managed |-> {}]],
                rootElement),
              root, rootElement))

\* A setInert without the two early returns: it constructs a root for an
\* element that has one, and destroys the root of an element that has none.
setInertUnguarded(W, root, inert) ==
  IF W.err # NoErr THEN W
  ELSE IF inert
  THEN IF ~HasFreeId(W.roots, root) THEN Throw(W, IdsExhausted)
       ELSE LET id == NewId(W.roots, root)
                set(W1) ==
                  IF W1.err # NoErr THEN W1
                  ELSE [SetInertAttr(W1, root) EXCEPT !.mRoots[root] = id]
            IN set(NewInertRoot(W, id, root))
  ELSE IF W.mRoots[root] = NoObj THEN Throw(W, TypeError)
       ELSE LET delete(W1) ==
                  IF W1.err # NoErr THEN W1
                  ELSE RemoveInertAttr([W1 EXCEPT !.mRoots[root] = NoObj], root)
            IN delete(InertRootDestructor(W, W.mRoots[root]))

\* InertManager.setInert
setInert(W, root, inert) ==
  IF W.err # NoErr THEN W
  ELSE IF inert
  THEN IF W.mRoots[root] # NoObj THEN W
       ELSE IF ~HasFreeId(W.roots, root) THEN Throw(W, IdsExhausted)
       ELSE LET id == NewId(W.roots, root)
                set(W1) ==
                  IF W1.err # NoErr THEN W1
                  ELSE [SetInertAttr(W1, root) EXCEPT !.mRoots[root] = id]
            IN set(NewInertRoot(W, id, root))
  ELSE IF W.mRoots[root] = NoObj THEN W
       ELSE LET delete(W1) ==
                  IF W1.err # NoErr THEN W1
                  ELSE RemoveInertAttr([W1 EXCEPT !.mRoots[root] = NoObj], root)
            IN delete(InertRootDestructor(W, W.mRoots[root]))

\* ------------------------------------------------- the mutation callbacks

\* Objects no reference reaches any more are reclaimed. Between two records
\* of a callback no local variable holds an InertRoot or an InertElement.
CollectGarbage(W) ==
  LET recs0 == {W.mElems[e] : e \in Elements} \ {NoObj}
      roots0 == ({W.mRoots[e] : e \in Elements} \ {NoObj})
                  \cup (Range(W.observers) \ {MgrObs})
      roots1 == roots0 \cup UNION {W.recs[r].inertRoots : r \in recs0}
      recs1 == recs0 \cup UNION {W.roots[q].managed : q \in roots1}
      roots2 == roots1 \cup UNION {W.recs[r].inertRoots : r \in recs1}
  IN [W EXCEPT !.roots = [q \in ObjIds |-> IF q \in roots2 THEN @[q] ELSE FreeRoot],
               !.recs = [r \in ObjIds |-> IF r \in recs1 THEN @[r] ELSE FreeRec]]

RECURSIVE pushDown(_, _, _, _, _)
\* the loop of _onMutation's inert branch over this._managedElements:
\* inertSubroot._manageElement(managedElement.element) for every managed
\* element the new root contains (contains(undefined) is false)
pushDown(W, root, inertSubroot, target, visited) ==
  LET todo == W.roots[root].managed \ visited IN
  IF todo = {} \/ W.err # NoErr THEN W
  ELSE LET r == CHOOSE r \in todo : TRUE
           element == W.recs[r].el
           W1 == IF element # None /\ Contains(W.ch, target, element)
                 THEN manageElement(W, inertSubroot, element) ELSE W
       IN pushDown(W1, root, inertSubroot, target, visited \cup {r})

\* An _onMutation that handles removed nodes only and skips the added ones.
onMutationRecordNoAdded(W, root, record) ==
  LET target == record.target IN
  IF record.type = "added"
  THEN W
  ELSE IF record.type = "removed"
  THEN unmanageSubtree(W, root, record.node)
  ELSE IF record.name = "tabindex"
  THEN manageElement(W, root, target)
  ELSE IF /\ target # W.roots[root].el
          /\ record.name = "inert"
          /\ W.inert[target]
  THEN LET tell(W1) ==
             IF W1.err # NoErr THEN W1
             ELSE pushDown(W1, root, getInertRoot(W1, target), target, {})
       IN tell(adoptInertRoot(W, root, target))
  ELSE W

\* the body of InertRoot._onMutation for one record
onMutationRecord(W, root, record) ==
  LET target == record.target IN
  IF record.type = "added"
  THEN makeSubtreeUnfocusable(W, root, record.node)
  ELSE IF record.type = "removed"
  THEN unmanageSubtree(W, root, record.node)
  ELSE IF record.name = "tabindex"
  THEN manageElement(W, root, target)
  ELSE IF /\ target # W.roots[root].el
          /\ record.name = "inert"
          /\ W.inert[target]
  THEN LET tell(W1) ==
             IF W1.err # NoErr THEN W1
             ELSE pushDown(W1, root, getInertRoot(W1, target), target, {})
       IN tell(adoptInertRoot(W, root, target))
  ELSE W

RECURSIVE onMutation(_, _, _)
\* InertRoot._onMutation
onMutation(W, root, records) ==
  IF records = <<>> \/ W.err # NoErr THEN W
  ELSE onMutation(CollectGarbage(onMutationRecord(W, root, Head(records))),
                  root, Tail(records))

RECURSIVE setInertAllConstructs(_, _)
\* A loop that constructs an InertRoot for each element of the list itself,
\* without asking whether the element has one already.
setInertAllConstructs(W, els) ==
  IF els = <<>> \/ W.err # NoErr THEN W
  ELSE setInertAllConstructs(setInertUnguarded(W, Head(els), TRUE), Tail(els))

RECURSIVE setInertAll(_, _)
\* setInert(inertElement, true) for each element of a list
setInertAll(W, els) ==
  IF els = <<>> \/ W.err # NoErr THEN W
  ELSE setInertAll(setInert(W, Head(els), TRUE), Tail(els))

\* The marked descendants alone: the added node itself is forgotten.
InertElementsInDescendants(W, node) ==
  SelectSeq(DescendantsSeq(W.ch, node), LAMBDA d : W.inert[d])

\* node.querySelectorAll('[inert]'), with node itself first when it matches
InertElementsIn(W, node) ==
  SelectSeq(<<node>> \o DescendantsSeq(W.ch, node), LAMBDA d : W.inert[d])

\* A _watchForInert that handles childList records only.
watchForInertRecordChildListOnly(W, record) ==
  IF record.type = "added"
  THEN setInertAll(W, InertElementsIn(W, record.node))
  ELSE W

\* A handler that takes every record of the inert attribute for the marker
\* having been added.
watchForInertRecordActivates(W, record) ==
  IF record.type = "added"
  THEN setInertAll(W, InertElementsIn(W, record.node))
  ELSE IF record.type = "attributes" /\ record.name = "inert"
  THEN setInert(W, record.target, TRUE)
  ELSE W

\* the body of InertManager._watchForInert for one record
watchForInertRecord(W, record) ==
  IF record.type = "added"
  THEN setInertAll(W, InertElementsIn(W, record.node))
  ELSE IF record.type = "attributes" /\ record.name = "inert"
  THEN setInert(W, record.target, W.inert[record.target])
  ELSE W

RECURSIVE watchForInert(_, _)
\* InertManager._watchForInert
watchForInert(W, records) ==
  IF records = <<>> \/ W.err # NoErr THEN W
  ELSE watchForInert(CollectGarbage(watchForInertRecord(W, Head(records))),
                     Tail(records))

\* the document object, and the argument of a call made without one
Document == "document"
NoDocument == "undefined"

\* An InertManager constructor without the test of its argument: the maps
\* are created, then querySelectorAll on undefined raises a TypeError.
NewInertManagerUnchecked(W, document) ==
  LET created == [W EXCEPT !.mElems = [e \in Elements |-> NoObj],
                           !.mRoots = [e \in Elements |-> NoObj]]
      observe(W1) == CollectGarbage([W1 EXCEPT !.observers = Append(@, MgrObs)])
  IN IF document = NoDocument THEN Throw(created, TypeError)
     ELSE observe(setInertAll(created, SelectSeq(DescendantsSeq(W.ch, Body),
                                                 LAMBDA d : W.inert[d])))

\* The constructor of InertManager from the creation of the two maps on:
\* setInert(inertElement, true) for each element of the list inertElements,
\* then the document observer
ScanInOrder(W, inertElements) ==
  LET created == [W EXCEPT !.mElems = [e \in Elements |-> NoObj],
                           !.mRoots = [e \in Elements |-> NoObj]]
      observe(W1) == CollectGarbage([W1 EXCEPT !.observers = Append(@, MgrObs)])
  IN observe(setInertAll(created, inertElements))

\* new InertManager(document): the test of the argument, then the maps and
\* the scan of document.querySelectorAll('[inert]'), which is in document order
NewInertManager(W, document) ==
  IF document = NoDocument THEN Throw(W, MissingDocument)
  ELSE ScanInOrder(W, SelectSeq(DescendantsSeq(W.ch, Body), LAMBDA d : W.inert[d]))

\* ------------------------------------------------ the page script's DOM calls

\* parent.appendChild(node) for a node that has no parent
AppendChildW(W, parent, node) ==
  Enqueue([W EXCEPT !.ch[parent] = Append(@, node)], parent,
          [type |-> "added", target |-> parent, name |-> None, node |-> node])

\* node.remove(): every observer of the old parent keeps a transient
\* registration on the removed node until it is next notified
RemoveChildW(W, node) ==
  LET parent == ParentOf(W.ch, node)
      W1 == [W EXCEPT !.ch[parent] = SelectSeq(@, LAMBDA c : c # node),
                      !.transient = @ \cup {<<o, node>> : o \in Receivers(W, parent)}]
  IN Enqueue(W1, parent,
             [type |-> "removed", target |-> parent, name |-> None, node |-> node])

\* ------------------------------------------------------------------ state

VARIABLES
  children,         \* the DOM tree: node -> sequence of child elements
  buttons,          \* the elements that are <button>s (fixed by the document)
  tabindex,         \* element -> tabindex attribute (a string) or None
  inertAttr,        \* element -> whether the inert attribute is present
  ariaHidden,       \* element -> aria-hidden attribute or None
  focusOverridden,  \* element -> element.focus replaced by a no-op
  rootObjs,         \* the InertRoot objects
  elementObjs,      \* the InertElement objects
  inertRoots,       \* InertManager._inertRoots: element -> InertRoot
  managedElements,  \* InertManager._managedElements: element -> InertElement
  observers,        \* MutationObservers in creation order
  queue,            \* observer -> queued MutationRecords
  transient,        \* transient registered observers: <<observer, node>>
  notifying,        \* observers still to be notified in the running pass
  thrown,           \* the exception the last call or callback raised
  authored,         \* element -> the tabindex the page author last wrote
  rewritten,        \* element -> the author wrote it while a record was live
  last,             \* the page script's last operation
  before,           \* what held when the page script's last operation began
  everInside,       \* the elements that have been in an active root's subtree
  ops               \* page-script operations so far

vars ==
  <<children, buttons, tabindex, inertAttr, ariaHidden, focusOverridden, rootObjs,
    elementObjs, inertRoots, managedElements, observers, queue, transient,
    notifying, thrown, authored, rewritten, last, before, everInside, ops>>

\* the heap of the current state
World ==
  [ch |-> children, buttons |-> buttons, tab |-> tabindex, inert |-> inertAttr, aria |-> ariaHidden,
   focus |-> focusOverridden, roots |-> rootObjs, recs |-> elementObjs,
   mRoots |-> inertRoots, mElems |-> managedElements, observers |-> observers,
   queue |-> queue, transient |-> transient, err |-> NoErr]

\* the elements in the subtree of an element of the root map (the elements
\* the walk of _makeSubtreeUnfocusable from an active root visits)
InsideActive(W) ==
  {e \in Elements : \E r \in Elements : W.mRoots[r] # NoObj /\ Contains(W.ch, r, e)}

\* the heap W becomes the next state
Becomes(W) ==
  /\ children' = W.ch
  /\ buttons' = W.buttons
  /\ tabindex' = W.tab
  /\ inertAttr' = W.inert
  /\ ariaHidden' = W.aria
  /\ focusOverridden' = W.focus
  /\ rootObjs' = W.roots
  /\ elementObjs' = W.recs
  /\ inertRoots' = W.mRoots
  /\ managedElements' = W.mElems
  /\ observers' = W.observers
  /\ queue' = W.queue
  /\ transient' = W.transient
  /\ thrown' = W.err

\* the heap W0 becomes the next state, less the objects nothing refers to
Commit(W0) ==
  LET becomes(W) ==
        /\ Becomes(W)
        /\ everInside' = everInside \cup InsideActive(W)
  IN becomes(CollectGarbage(W0))

\* the documents the program starts on
\* (body > A > B > x; body > A > x and body > B; body > A with B > x
\* detached; body > A > B with x detached; A > B > x detached). A detached
\* fragment is one an earlier script prepared; it may carry markers.
InitTrees ==
  { [n \in Nodes |-> CASE n = Body -> <<"A">> [] n = "A" -> <<"B">>
                       [] n = "B" -> <<"x">> [] OTHER -> <<>>],
    [n \in Nodes |-> CASE n = Body -> <<"A", "B">> [] n = "A" -> <<"x">>
                       [] OTHER -> <<>>],
    [n \in Nodes |-> CASE n = Body -> <<"A">> [] n = "B" -> <<"x">>
                       [] OTHER -> <<>>],
    [n \in Nodes |-> CASE n = Body -> <<"A">> [] n = "A" -> <<"B">>
                       [] OTHER -> <<>>],
    [n \in Nodes |-> CASE n = "A" -> <<"B">> [] n = "B" -> <<"x">>
                       [] OTHER -> <<>>] }

\* the heap before the program runs
BlankWorld(ch, btns, markers, tx) ==
  [ch |-> ch,
   buttons |-> btns,
   tab |-> [e \in Elements |-> IF e = "x" THEN tx ELSE None],
   inert |-> [e \in Elements |-> e \in markers],
   aria |-> [e \in Elements |-> None],
   focus |-> [e \in Elements |-> FALSE],
   roots |-> [q \in ObjIds |-> FreeRoot],
   recs |-> [r \in ObjIds |-> FreeRec],
   mRoots |-> None,
   mElems |-> None,
   observers |-> <<>>,
   queue |-> [o \in ObserverIds |-> <<>>],
   transient |-> {},
   err |-> NoErr]

\* The state once the script of src/inert.js has run: `new
\* InertManager(document)` on the document ch whose elements carry the
\* aria-hidden attributes `hidden`. (The <style> element the script appends
\* afterwards carries no inert marker and no tabindex; its childList record
\* falls through _watchForInert.)
StartedOn(ch, btns, markers, tx, hidden) ==
    LET starts(W) ==
          /\ children = W.ch
          /\ buttons = btns
          /\ tabindex = W.tab
          /\ inertAttr = W.inert
          /\ ariaHidden = W.aria
          /\ focusOverridden = W.focus
          /\ rootObjs = W.roots
          /\ elementObjs = W.recs
          /\ inertRoots = W.mRoots
          /\ managedElements = W.mElems
          /\ observers = W.observers
          /\ queue = W.queue
          /\ transient = W.transient
          /\ thrown = W.err
          /\ everInside = InsideActive(W)
    IN starts(NewInertManager([BlankWorld(ch, btns, markers, tx) EXCEPT !.aria = hidden],
                              Document))
    /\ notifying = <<>>
    /\ authored = [e \in Elements |-> IF e = "x" THEN tx ELSE None]
    /\ rewritten = [e \in Elements |-> FALSE]
    /\ last = [op |-> "new InertManager", el |-> None, val |-> None, was |-> None]
    /\ before = [roots |-> {}, focusable |-> {}]
    /\ ops = 0

\* the documents of InitTrees, no element carrying aria-hidden
Init ==
  \E ch \in InitTrees, btns \in SUBSET Leaves, markers \in SUBSET RootCandidates,
     tx \in InitTabs :
    StartedOn(ch, btns, markers, tx, [e \in Elements |-> None])

\* the active roots, and the elements _visitNode would register, right now
Snapshot ==
  [roots |-> {e \in Elements : inertRoots[e] # NoObj},
   focusable |-> {e \in Elements : Matches(World, e) \/ tabindex[e] # None}]

\* the page script runs between notification passes
ScriptMayRun == notifying = <<>> /\ ops < MaxOps

BoolStr(b) == IF b THEN "true" ELSE "false"

\* element.inert = v (the setter of Element.prototype.inert); last.was tells
\* whether the element was in the root map when the call was made
SetInertProperty(e, v) ==
  /\ ScriptMayRun
  /\ Commit(setInert(World, e, v))
  /\ last' = [op |-> "inert=", el |-> e, val |-> BoolStr(v),
               was |-> BoolStr(inertRoots[e] # NoObj)]
  /\ before' = Snapshot
  /\ ops' = ops + 1
  /\ UNCHANGED <<notifying, authored, rewritten>>

\* element.setAttribute('inert', '') by the page script
AddInertAttribute(e) ==
  /\ ScriptMayRun
  /\ ~inertAttr[e]
  /\ Commit(SetInertAttr(World, e))
  /\ last' = [op |-> "setAttribute inert", el |-> e, val |-> None, was |-> None]
  /\ before' = Snapshot
  /\ ops' = ops + 1
  /\ UNCHANGED <<notifying, authored, rewritten>>

\* element.removeAttribute('inert') by the page script
RemoveInertAttribute(e) ==
  /\ ScriptMayRun
  /\ inertAttr[e]
  /\ Commit(RemoveInertAttr(World, e))
  /\ last' = [op |-> "removeAttribute inert", el |-> e, val |-> None, was |-> None]
  /\ before' = Snapshot
  /\ ops' = ops + 1
  /\ UNCHANGED <<notifying, authored, rewritten>>

\* element.setAttribute('tabindex', v) by the page script
SetTabindex(e, v) ==
  /\ ScriptMayRun
  /\ Commit(SetTabindexAttr(World, e, v))
  /\ authored' = [authored EXCEPT ![e] = v]
  /\ rewritten' = [rewritten EXCEPT ![e] = managedElements[e] # NoObj]
  /\ last' = [op |-> "setAttribute tabindex", el |-> e, val |-> v, was |-> None]
  /\ before' = Snapshot
  /\ ops' = ops + 1
  /\ UNCHANGED notifying

\* element.removeAttribute('tabindex') by the page script
RemoveTabindex(e) ==
  /\ ScriptMayRun
  /\ tabindex[e] # None
  /\ Commit(RemoveTabindexAttr(World, e))
  /\ authored' = [authored EXCEPT ![e] = None]
  /\ rewritten' = [rewritten EXCEPT ![e] = managedElements[e] # NoObj]
  /\ last' = [op |-> "removeAttribute tabindex", el |-> e, val |-> None, was |-> None]
  /\ before' = Snapshot
  /\ ops' = ops + 1
  /\ UNCHANGED notifying

\* parent.appendChild(node) by the page script, for a detached node
AppendChild(parent, node) ==
  /\ ScriptMayRun
  /\ ParentOf(children, node) = None
  /\ ~Contains(children, node, parent)
  /\ Commit(AppendChildW(World, parent, node))
  /\ last' = [op |-> "appendChild", el |-> node, val |-> parent, was |-> None]
  /\ before' = Snapshot
  /\ ops' = ops + 1
  /\ UNCHANGED <<notifying, authored, rewritten>>

\* node.remove() by the page script
RemoveChild(node) ==
  /\ ScriptMayRun
  /\ ParentOf(children, node) # None
  /\ Commit(RemoveChildW(World, node))
  /\ last' = [op |-> "remove", el |-> node, val |-> None,
               was |-> ParentOf(children, node)]
  /\ before' = Snapshot
  /\ ops' = ops + 1
  /\ UNCHANGED <<notifying, authored, rewritten>>

\* some observer has records queued
Pending == \E o \in ObserverIds : queue[o] # <<>>

\* the first position of list whose observer has records queued, 0 if none
FirstPending(list, q) ==
  IF \E i \in 1..Len(list) : q[list[i]] # <<>>
  THEN CHOOSE i \in 1..Len(list) :
         /\ q[list[i]] # <<>>
         /\ \A j \in 1..(i - 1) : q[list[j]] = <<>>
  ELSE 0

\* One callback of the "notify mutation observers" microtask. A pass visits
\* the observers in creation order; each takes its whole queue, loses its
\* transient registrations and, when the queue was not empty, runs its
\* callback. Page script never runs inside a pass.
Deliver ==
  /\ notifying # <<>> \/ Pending
  /\ LET list == IF notifying = <<>> THEN observers ELSE notifying
         callback(i) ==
           LET o == list[i]
               turned == {list[j] : j \in 1..i}
               rest == SubSeq(list, i + 1, Len(list))
               invoke(W0) ==
                 IF o = MgrObs
                 THEN watchForInert(W0, queue[o])
                 ELSE onMutation(W0, o, queue[o])
               goOn(W1, k) ==
                 LET skipped == IF k = 0 THEN Range(rest)
                                ELSE {rest[j] : j \in 1..(k - 1)}
                 IN /\ Commit([W1 EXCEPT
                                 !.transient = {t \in @ : t[1] \notin skipped}])
                    /\ notifying' = IF k = 0 THEN <<>>
                                    ELSE SubSeq(rest, k, Len(rest))
               after(W1) == goOn(W1, FirstPending(rest, W1.queue))
           IN after(invoke([World EXCEPT
                              !.queue[o] = <<>>,
                              !.transient = {t \in @ : t[1] \notin turned}]))
     IN callback(FirstPending(list, queue))
  /\ UNCHANGED <<authored, rewritten, last, before, ops>>

Next ==
  \/ \E e \in RootCandidates, v \in BOOLEAN : SetInertProperty(e, v)
  \/ \E e \in RootCandidates : AddInertAttribute(e)
  \/ \E e \in RootCandidates : RemoveInertAttribute(e)
  \/ \E e \in Leaves, v \in TabInputs : SetTabindex(e, v)
  \/ \E e \in Leaves : RemoveTabindex(e)
  \/ \E p \in Containers, n \in Insertable : AppendChild(p, n)
  \/ \E n \in Removable : RemoveChild(n)
  \/ Deliver

Spec == Init /\ [][Next]_vars

\* ------------------------------------------------------------ vocabulary

\* no mutation batch is pending delivery
Quiescent == notifying = <<>> /\ ~Pending

\* the element is in the Manager's root map
ActiveRoot(e) == inertRoots[e] # NoObj

\* the element is in the Manager's element map
HasRecord(e) == managedElements[e] # NoObj
RecordOf(e) == elementObjs[managedElements[e]]
LiveRecord(e) == HasRecord(e) /\ RecordOf(e).used /\ ~RecordOf(e).destroyed

\* e lies in the subtree of r, r excluded
StrictlyInside(e, r) == e # r /\ Contains(children, r, e)

\* the element matches the whitelist or was given an explicit tabindex
Focusable(e) == e \in buttons \/ authored[e] # None

\* isUnfocusable of src/test/index.js: focus() has no effect and tabIndex is
\* -1. focus() has no effect when the polyfill replaced it, or when the
\* element is a <div> without a tabindex attribute.
IsUnfocusable(e) ==
  /\ TabIndexProp(World, e) = -1
  /\ focusOverridden[e] \/ (e \notin buttons /\ tabindex[e] = None)

\* the page script has just called element.inert = v
CallsSetInert(e, v) ==
  /\ ops' = ops + 1
  /\ last'.op = "inert="
  /\ last'.el = e
  /\ last'.val = BoolStr(v)

\* ------------------------------------------------------------------ claims

C2_RoundTripWithPriorValue ==
  \A e \in Leaves :
    (authored[e] # None /\ ~rewritten[e] /\ ~HasRecord(e))
    => /\ tabindex[e] # None
       /\ TabIndexProp(World, e) = ParseInt(authored[e])

\* a <div tabindex="0"> that was inert from startup, after its only root was
\* deactivated
C2_Witness ==
  /\ ops = 1
  /\ last = [op |-> "inert=", el |-> "A", val |-> "false", was |-> "true"]
  /\ StrictlyInside("x", "A")
  /\ "x" \notin buttons
  /\ authored["x"] = "0"
  /\ tabindex["x"] = "0"
  /\ ~HasRecord("x")

\* C3. Round trip without a prior value: a <button> that had no tabindex
\* attribute before it was made inert has none whenever no inert root claims
\* it.
C3_RoundTripWithoutPriorValue ==
  \A e \in Leaves :
    (e \in buttons /\ authored[e] = None /\ ~rewritten[e] /\ ~HasRecord(e))
    => tabindex[e] = None

C5_RootRegistryMatchesMarkers ==
  Quiescent => \A e \in Elements : ActiveRoot(e) <=> inertAttr[e]

\* the element is connected to the document
Connected(e) == Contains(children, Body, e)

\* C6. Interning: there is at most one live InertElement per element, and
\* every record a root holds is the record the Manager's element map stores
\* for that element.
C6_Interning ==
  /\ \A r1, r2 \in ObjIds :
       ( /\ elementObjs[r1].used /\ ~elementObjs[r1].destroyed
         /\ elementObjs[r2].used /\ ~elementObjs[r2].destroyed
         /\ elementObjs[r1].el = elementObjs[r2].el )
       => r1 = r2
  /\ \A q \in ObjIds :
       rootObjs[q].used =>
         \A r \in rootObjs[q].managed :
           /\ elementObjs[r].used
           /\ elementObjs[r].el # None
           /\ managedElements[elementObjs[r].el] = r

\* one record shared by two roots
C6_Witness ==
  /\ ActiveRoot("A") /\ ActiveRoot("B")
  /\ LiveRecord("x")
  /\ RecordOf("x").inertRoots = {inertRoots["A"], inertRoots["B"]}
  /\ rootObjs[inertRoots["A"]].managed = {managedElements["x"]}
  /\ rootObjs[inertRoots["B"]].managed = {managedElements["x"]}

\* C7. Record lifetime: a record is alive (not destroyed, in the element map)
\* if and only if its claimant set is non-empty, and no root holds a
\* destroyed record; the deregistration that removes the last claimant
\* destroys the record and restores the element: an element without a record
\* has its own focus method and the tabindex state its author gave it.
C7_RecordLifetime ==
  /\ \A r \in ObjIds :
       elementObjs[r].used =>
         LET alive == /\ ~elementObjs[r].destroyed
                      /\ elementObjs[r].el # None
                      /\ managedElements[elementObjs[r].el] = r
         IN /\ alive <=> elementObjs[r].inertRoots # {}
            /\ elementObjs[r].destroyed =>
                 \A q \in ObjIds : r \notin rootObjs[q].managed
  /\ \A e \in Elements : focusOverridden[e] => LiveRecord(e)
  /\ \A e \in Elements :
       (~HasRecord(e) /\ ~rewritten[e]) =>
         IF authored[e] = None
         THEN tabindex[e] = None
         ELSE /\ tabindex[e] # None
              /\ TabIndexProp(World, e) = ParseInt(authored[e])

\* C8. Idempotence of setInert: setInert(root, true) on a root in the root
\* map, and setInert(root, false) on an element not in it, change nothing.
C8_SetInertIdempotent ==
  [][\A e \in RootCandidates, v \in BOOLEAN :
       (CallsSetInert(e, v) /\ (ActiveRoot(e) <=> v))
       => UNCHANGED <<inertRoots, managedElements, elementObjs, rootObjs,
                      tabindex, inertAttr, ariaHidden, focusOverridden,
                      observers, queue, transient, children>>]_vars

\* setInert(A, true) was called on the active root A
C8_Witness ==
  /\ last = [op |-> "inert=", el |-> "A", val |-> "true", was |-> "true"]
  /\ ActiveRoot("A")
  /\ StrictlyInside("x", "A")
  /\ LiveRecord("x")

\* C9. Dynamic content: when an element that is focusable (on the whitelist
\* or carrying a tabindex attribute) is inserted into the subtree of an
\* active inert root, then once the batch has been delivered, and for as
\* long as that root stays active, the element has a live record, is
\* unfocusable, and is registered with every active root containing it.
C9_DynamicContent ==
  (Quiescent /\ last.op = "appendChild") =>
    \A e \in Elements, r0 \in Elements :
      ( /\ Contains(children, last.el, e) /\ e \in before.focusable
        /\ r0 \in before.roots /\ ActiveRoot(r0)
        /\ Contains(children, r0, last.val) )
      => /\ LiveRecord(e)
         /\ IsUnfocusable(e)
         /\ \A r \in Elements :
              (ActiveRoot(r) /\ Contains(children, r, e))
              => /\ inertRoots[r] \in RecordOf(e).inertRoots
                 /\ managedElements[e] \in rootObjs[inertRoots[r]].managed

\* a button was appended to B inside A while both were active roots
C9_Witness ==
  /\ Quiescent
  /\ last = [op |-> "appendChild", el |-> "x", val |-> "B", was |-> None]
  /\ StrictlyInside("B", "A")
  /\ "x" \in buttons
  /\ before.roots = {"A", "B"}
  /\ "x" \in before.focusable
  /\ ActiveRoot("A") /\ ActiveRoot("B")
  /\ RecordOf("x").inertRoots = {inertRoots["A"], inertRoots["B"]}
  /\ IsUnfocusable("x")

\* C10. Inserted markers are detected: once the batch of an insertion into
\* the document has been delivered, every element of the inserted subtree
\* that carries the inert attribute is an active root and its focusable
\* descendants are unfocusable.
C10_InsertedMarkersDetected ==
  (Quiescent /\ last.op = "appendChild" /\ Connected(last.el)) =>
    \A m \in Elements :
      (Contains(children, last.el, m) /\ inertAttr[m])
      => /\ ActiveRoot(m)
         /\ \A e \in Elements :
              (Contains(children, m, e) /\ Focusable(e)) => IsUnfocusable(e)

\* A > B > x was appended to the body with the marker on B only
C10_Witness ==
  /\ Quiescent
  /\ last = [op |-> "appendChild", el |-> "A", val |-> Body, was |-> None]
  /\ ~inertAttr["A"] /\ inertAttr["B"]
  /\ StrictlyInside("x", "B") /\ StrictlyInside("B", "A")
  /\ "x" \in buttons
  /\ ActiveRoot("B")
  /\ IsUnfocusable("x")

\* the model never runs out of object identities
IdsSuffice == thrown # IdsExhausted

\* What a script can tell of a heap: the attributes (tabindex as presence
\* and the number element.tabIndex reads), the focus methods, the root map's
\* elements, each root's managed elements, each record's claimants (by root
\* element) and saved value, the exception raised.
StateOf(W) ==
  [tab |-> [e \in Elements |-> <<W.tab[e] # None, TabIndexProp(W, e)>>],
   inert |-> W.inert, aria |-> W.aria, focus |-> W.focus,
   roots |-> {e \in Elements : W.mRoots[e] # NoObj},
   managed |-> [e \in Elements |->
                  IF W.mRoots[e] = NoObj THEN {}
                  ELSE {W.recs[r].el : r \in W.roots[W.mRoots[e]].managed}],
   records |-> [e \in Elements |->
                  IF W.mElems[e] = NoObj THEN <<>>
                  ELSE <<{W.roots[q].el : q \in W.recs[W.mElems[e]].inertRoots},
                         W.recs[W.mElems[e]].hasSaved,
                         W.recs[W.mElems[e]].saved>>],
   err |-> W.err]

\* element.inert = v as a function of the heap
Toggle(W, root, v) == CollectGarbage(setInert(W, root, v))

\* no element is a root or carries the marker, and no record exists
NoInertRegion(W) ==
  \A e \in Elements :
    W.mRoots[e] = NoObj /\ W.mElems[e] = NoObj /\ ~W.inert[e]

\* C11. Repeated cycles are independent: from a state without any inert
\* region, alternating R.inert = true / R.inert = false gives after every
\* activation the state of the first activation (every focusable descendant
\* managed, same saved values) and after every deactivation the state before
\* the first activation (attributes as they were, empty registries).
C11_RepeatedCycles ==
  (notifying = <<>> /\ NoInertRegion(World)) =>
    \A R \in RootCandidates :
      LET cycle4(W0, W1, W2, W3, W4) ==
            /\ StateOf(W1).roots = {R}
            /\ \A e \in Elements :
                 (Contains(children, R, e)
                    /\ (e \in buttons \/ tabindex[e] # None))
                 => /\ e \in StateOf(W1).managed[R]
                    /\ W1.focus[e] \/ (e \notin buttons /\ W1.tab[e] = None)
                    /\ TabIndexProp(W1, e) = -1
            /\ StateOf(W2) = StateOf(W0)
            /\ NoInertRegion(W2)
            /\ StateOf(W3) = StateOf(W1)
            /\ StateOf(W4) = StateOf(W0)
          cycle3(W0, W1, W2, W3) == cycle4(W0, W1, W2, W3, Toggle(W3, R, FALSE))
          cycle2(W0, W1, W2) == cycle3(W0, W1, W2, Toggle(W2, R, TRUE))
          cycle1(W0, W1) == cycle2(W0, W1, Toggle(W1, R, FALSE))
      IN cycle1(World, Toggle(World, R, TRUE))

\* A.inert = true, then A.inert = false, on a document whose only inert
\* region was A: the button inside A has no tabindex and no record again
C11_Witness ==
  /\ ops = 2
  /\ last = [op |-> "inert=", el |-> "A", val |-> "false", was |-> "true"]
  /\ before.roots = {"A"}
  /\ "x" \in before.focusable
  /\ StrictlyInside("x", "A")
  /\ "x" \in buttons
  /\ authored["x"] = None
  /\ tabindex["x"] = None
  /\ ~focusOverridden["x"]
  /\ NoInertRegion(World)

\* C12. No effect outside inert regions: an element that has never been in the
\* subtree of an active inert root carries the tabindex attribute its author
\* gave it, has no record in the element map, and its focus method is intact.
\* (Violated: a root's observer still receives the records of a subtree that
\* was removed from it, and _onMutation manages the nodes added there.)
C12_NoEffectOutside ==
  \A e \in Elements :
    e \notin everInside
    => /\ tabindex[e] = authored[e]
       /\ ~HasRecord(e)
       /\ ~focusOverridden[e]

\* C13. Deactivation effects: when setInert(r, false) returns for an active
\* root r, r carries neither inert nor aria-hidden and is absent from the root
\* map, no record r managed has r among its claimants, and every element that
\* r alone claimed is absent from the element map and restored: its own focus
\* method and the tabindex state its author gave it.
\* (Violated through the saved -1 of C3: a <button> without tabindex that two
\* roots claimed keeps tabindex="-1" when the last of them is deactivated.)
C13_DeactivationEffects ==
  [][\A r \in RootCandidates :
       (CallsSetInert(r, FALSE) /\ ActiveRoot(r))
       => /\ ~inertAttr'[r]
          /\ ariaHidden'[r] = None
          /\ inertRoots'[r] = NoObj
          /\ thrown' = NoErr
          /\ \A k \in ObjIds :
               (elementObjs[k].used /\ k \in rootObjs[inertRoots[r]].managed)
               => inertRoots[r] \notin elementObjs'[k].inertRoots
          /\ \A e \in Elements :
               (HasRecord(e) /\ RecordOf(e).inertRoots = {inertRoots[r]})
               => /\ managedElements'[e] = NoObj
                  /\ ~focusOverridden'[e]
                  /\ ~rewritten[e] =>
                       IF authored[e] = None
                       THEN tabindex'[e] = None
                       ELSE /\ tabindex'[e] # None
                            /\ TabIndexProp(World, e)' = ParseInt(authored[e])]_vars

\* the page script's last operation inserted b, carrying the inert attribute
\* and containing the focusable element x, into the subtree of the root a,
\* active then and now, and the batch has been delivered
InsertedMarked(a, b, x) ==
  /\ Quiescent
  /\ last.op = "appendChild" /\ last.el = b
  /\ inertAttr[b]
  /\ a \in before.roots /\ ActiveRoot(a)
  /\ StrictlyInside(b, a) /\ StrictlyInside(x, b)
  /\ Focusable(x)

HandleAccesses ==
  {"get element", "get savedTabIndex", "set savedTabIndex", "addInertRoot",
   "removeInertRoot", "ensureUntabbable"}

\* one call on the record r: W is the heap after it, value what it returned
HandleCall(r, name, W, value) ==
  /\ Commit(W)
  /\ last' = [op |-> name, el |-> elementObjs[r].el, val |-> value,
               was |-> BoolStr(elementObjs[r].destroyed)]
  /\ before' = Snapshot
  /\ ops' = ops + 1
  /\ UNCHANGED <<notifying, authored, rewritten>>

\* the holder calls a member of a record that exists, between two batches
HandleHeld(r) == ops < MaxOps /\ notifying = <<>> /\ elementObjs[r].used

HandleDestructor(r) ==
  /\ HandleHeld(r)
  /\ HandleCall(r, "destructor", InertElementDestructor(World, r), None)
HandleGetElement(r) ==
  /\ HandleHeld(r)
  /\ HandleCall(r, "get element", GetElement(World, r).heap, GetElement(World, r).value)
HandleGetSavedTabIndex(r) ==
  /\ HandleHeld(r)
  /\ HandleCall(r, "get savedTabIndex", GetSavedTabIndex(World, r).heap,
                GetSavedTabIndex(World, r).value)
HandleSetSavedTabIndex(r, v) ==
  /\ HandleHeld(r)
  /\ HandleCall(r, "set savedTabIndex", SetSavedTabIndex(World, r, v), None)
HandleAddInertRoot(r, q) ==
  /\ HandleHeld(r)
  /\ rootObjs[q].used
  /\ HandleCall(r, "addInertRoot", addInertRoot(World, r, q), None)
HandleRemoveInertRoot(r, q) ==
  /\ HandleHeld(r)
  /\ rootObjs[q].used
  /\ HandleCall(r, "removeInertRoot", removeInertRoot(World, r, q), None)
HandleEnsureUntabbable(r) ==
  /\ HandleHeld(r)
  /\ HandleCall(r, "ensureUntabbable", ensureUntabbable(World, r), None)

HandleNext ==
  \/ \E r \in ObjIds : HandleDestructor(r)
  \/ \E r \in ObjIds : HandleGetElement(r)
  \/ \E r \in ObjIds : HandleGetSavedTabIndex(r)
  \/ \E r \in ObjIds, v \in {-1, 0, 1} : HandleSetSavedTabIndex(r, v)
  \/ \E r \in ObjIds, q \in ObjIds : HandleAddInertRoot(r, q)
  \/ \E r \in ObjIds, q \in ObjIds : HandleRemoveInertRoot(r, q)
  \/ \E r \in ObjIds : HandleEnsureUntabbable(r)

\* the records of a started program, used through their members
HandleSpec == Init /\ [][HandleNext]_vars

\* C15. Use-after-destroy is always signalled: every access to a destroyed
\* record (reading element, reading or writing savedTabIndex, addInertRoot,
\* removeInertRoot, ensureUntabbable) raises the use-after-destroy error.
\* (Violated: reading element returns undefined without an error, and
\* ensureUntabbable, which reads it, raises a TypeError instead.)
C15_UseAfterDestroySignalled ==
  (last.op \in HandleAccesses /\ last.was = "true")
  => thrown = DestroyedError

\* C16. No error through the public surface: in every state the page script's
\* operations and the mutation callbacks reach, the call or callback that
\* led to it raised no error, and the element map and every root's managed
\* set hold only live (existing, not destroyed) records.
C16_NoErrorThroughPublicSurface ==
  /\ thrown = NoErr
  /\ \A e \in Elements : HasRecord(e) => LiveRecord(e)
  /\ \A q \in ObjIds : \A r \in rootObjs[q].managed :
       elementObjs[r].used /\ ~elementObjs[r].destroyed

\* the button x, claimed by the nested roots A and B, was removed from the
\* document; both roots' handlers deregistered it and its record is gone
C16_Witness ==
  /\ Quiescent
  /\ last.op = "remove" /\ last.el = "x"
  /\ before.roots = {"A", "B"} /\ ActiveRoot("A") /\ ActiveRoot("B")
  /\ "x" \in buttons
  /\ ~HasRecord("x")
  /\ \A q \in ObjIds : rootObjs[q].managed = {}
  /\ thrown = NoErr

\* --------------------------------------- documents that carry aria-hidden

\* the aria-hidden attributes a page author gives an element
AriaValues == {None, "true", "false"}

\* the documents of InitTrees, A and B carrying an aria-hidden attribute or none
AriaInit ==
  \E ch \in InitTrees, btns \in SUBSET Leaves, markers \in SUBSET RootCandidates,
     tx \in InitTabs, ha \in AriaValues, hb \in AriaValues :
    StartedOn(ch, btns, markers, tx,
              [e \in Elements |-> CASE e = "A" -> ha [] e = "B" -> hb [] OTHER -> None])

\* the page script toggles element.inert; the batches are delivered
AriaNext ==
  \/ \E e \in RootCandidates, v \in BOOLEAN : SetInertProperty(e, v)
  \/ Deliver

AriaSpec == AriaInit /\ [][AriaNext]_vars

\* C17. Exact reversal of the root's own state: activating an element that is
\* not a root and then deactivating it leaves its aria-hidden attribute as it
\* was before the activation: absent if absent, its prior value if present.
\* (Violated: the constructor overwrites the attribute with "true" and the
\* destructor removes it; the prior value is kept nowhere.)
C17_AriaHiddenReversed ==
  \A R \in RootCandidates :
    (notifying = <<>> /\ ~ActiveRoot(R))
    => Toggle(Toggle(World, R, TRUE), R, FALSE).aria[R] = ariaHidden[R]

\* ------------------------------------------------ the script's first line

\* the loaded document, before the script of src/inert.js runs
LoadedInit ==
  \E ch \in InitTrees, btns \in SUBSET Leaves, markers \in SUBSET RootCandidates,
     tx \in InitTabs :
    LET loaded(W) ==
          /\ children = W.ch
          /\ buttons = btns
          /\ tabindex = W.tab
          /\ inertAttr = W.inert
          /\ ariaHidden = W.aria
          /\ focusOverridden = W.focus
          /\ rootObjs = W.roots
          /\ elementObjs = W.recs
          /\ inertRoots = W.mRoots
          /\ managedElements = W.mElems
          /\ observers = W.observers
          /\ queue = W.queue
          /\ transient = W.transient
          /\ thrown = W.err
    IN loaded(BlankWorld(ch, btns, markers, tx))
    /\ notifying = <<>>
    /\ authored = [e \in Elements |-> IF e = "x" THEN tx ELSE None]
    /\ rewritten = [e \in Elements |-> FALSE]
    /\ last = [op |-> "load", el |-> None, val |-> None, was |-> None]
    /\ before = [roots |-> {}, focusable |-> {}]
    /\ everInside = {}
    /\ ops = 0

\* new InertManager(document), with the document or without an argument
ConstructManager(document) ==
  /\ last.op = "load"
  /\ LET constructed(W) ==
           /\ Becomes(W)
           /\ everInside' = IF W.err # NoErr THEN {} ELSE InsideActive(W)
     IN constructed(NewInertManager(World, document))
  /\ last' = [op |-> "new InertManager", el |-> None, val |-> document, was |-> None]
  /\ UNCHANGED <<notifying, authored, rewritten, before, ops>>

ConstructNext == \E document \in {Document, NoDocument} : ConstructManager(document)

ConstructSpec == LoadedInit /\ [][ConstructNext]_vars

\* C18. Constructing the Manager without a document raises the
\* missing-argument error at once: neither map is created, no root and no
\* record exists, no observer is subscribed, and no element's attributes or
\* focus method are touched.
C18_MissingDocumentFails ==
  (last.op = "new InertManager" /\ last.val = NoDocument)
  => /\ thrown = MissingDocument
     /\ inertRoots = None /\ managedElements = None
     /\ \A q \in ObjIds : ~rootObjs[q].used /\ ~elementObjs[q].used
     /\ observers = <<>>
     /\ \A e \in Elements :
          /\ tabindex[e] = authored[e]
          /\ ariaHidden[e] = None
          /\ ~focusOverridden[e]

\* the constructor was called without a document on a page where the marked A
\* holds the button x, and x is untouched
C18_Witness ==
  /\ last.op = "new InertManager" /\ last.val = NoDocument
  /\ thrown = MissingDocument
  /\ inertAttr["A"] /\ Contains(children, Body, "A") /\ StrictlyInside("x", "A")
  /\ "x" \in buttons /\ tabindex["x"] = None /\ ~focusOverridden["x"]
  /\ observers = <<>>

\* C19. Membership follows the tree: when no batch is pending, the elements
\* of the records an active root R manages lie in R's subtree, and every
\* element in R's subtree that is whitelisted-focusable or has a record is
\* managed by R.
\* (Violated in the first half: R's observer still hears of a subtree that
\* left R, and _onMutation manages an element for a tabindex change or an
\* insertion made there.)
C19_MembershipFollowsTree ==
  Quiescent =>
    \A R \in Elements :
      ActiveRoot(R) =>
        /\ \A r \in rootObjs[inertRoots[R]].managed :
             /\ elementObjs[r].el # None
             /\ Contains(children, R, elementObjs[r].el)
        /\ \A e \in Elements :
             (Contains(children, R, e) /\ (e \in buttons \/ HasRecord(e)))
             => managedElements[e] \in rootObjs[inertRoots[R]].managed

\* the orders in which the elements of S can be visited
Orders(S) ==
  {s \in [1..Cardinality(S) -> S] : \A i, j \in DOMAIN s : s[i] = s[j] => i = j}

\* the elements of the document that carry the inert attribute
MarkedInDocument ==
  {e \in Elements : inertAttr[e] /\ Contains(children, Body, e)}

\* C20. Startup order independence: the state new InertManager(document)
\* leaves (root map, element map, each record's claimants and saved tabindex,
\* the elements' attributes and focus methods) is the state the scan leaves in
\* any other order of the marked elements, inner before outer included; and
\* every marked element of the document is in the root map, with one
\* InertRoot object and one observer each.
C20_StartupOrderIndependence ==
  [][(last.op = "load" /\ last'.val = Document)
     => /\ \A order \in Orders(MarkedInDocument) :
             StateOf(ScanInOrder(World, order)) = StateOf(World)'
        /\ {e \in Elements : inertRoots'[e] # NoObj} = MarkedInDocument
        /\ Cardinality({q \in ObjIds : rootObjs'[q].used}) = Cardinality(MarkedInDocument)
        /\ Len(observers') = Cardinality(MarkedInDocument) + 1
        /\ thrown' = NoErr]_vars

\* the Manager was constructed on a document where the marked B, holding the
\* button x, lies inside the marked A; both are roots and both claim x
C20_Witness ==
  /\ last.op = "new InertManager" /\ last.val = Document
  /\ MarkedInDocument = {"A", "B"}
  /\ StrictlyInside("B", "A") /\ StrictlyInside("x", "B") /\ "x" \in buttons
  /\ ActiveRoot("A") /\ ActiveRoot("B")
  /\ RecordOf("x").inertRoots = {inertRoots["A"], inertRoots["B"]}

\* ------------------------------------------ markers added at any element

\* the page script marks elements (the leaf x too); the batches are delivered
MarkerNext ==
  \/ \E e \in Elements : AddInertAttribute(e)
  \/ Deliver

MarkerSpec == Init /\ [][MarkerNext]_vars

\* the page script marked P and then C (or C and then P), both in the
\* document and C inside P, with no batch delivered in between; now every
\* handler has run
BothMarked(P, C) ==
  /\ Quiescent
  /\ last.op = "setAttribute inert" /\ last.el \in {P, C}
  /\ inertAttr[P] /\ inertAttr[C]
  /\ P \notin before.roots /\ C \notin before.roots
  /\ Contains(children, Body, P) /\ StrictlyInside(C, P)

InertOpsSetInert(e, v) ==
  /\ notifying = <<>> /\ ops < MaxInertOps
  /\ Commit(setInert(World, e, v))
  /\ last' = [op |-> "inert=", el |-> e, val |-> BoolStr(v),
               was |-> BoolStr(inertRoots[e] # NoObj)]
  /\ before' = Snapshot
  /\ ops' = ops + 1
  /\ UNCHANGED <<notifying, authored, rewritten>>

\* element.removeAttribute('inert'), within MaxInertOps operations
InertOpsRemoveAttribute(e) ==
  /\ notifying = <<>> /\ ops < MaxInertOps
  /\ inertAttr[e]
  /\ Commit(RemoveInertAttr(World, e))
  /\ last' = [op |-> "removeAttribute inert", el |-> e, val |-> None, was |-> None]
  /\ before' = Snapshot
  /\ ops' = ops + 1
  /\ UNCHANGED <<notifying, authored, rewritten>>

InertOpsNext ==
  \/ \E e \in RootCandidates, v \in BOOLEAN : InertOpsSetInert(e, v)
  \/ \E e \in RootCandidates : InertOpsRemoveAttribute(e)
  \/ Deliver

\* the started program under the inert property and removeAttribute alone
InertOpsSpec == Init /\ [][InertOpsNext]_vars

\* C22. Adoption superset: when no batch is pending, for roots a and b in the
\* root map with b inside a's subtree, every record b manages whose element
\* lies in a's subtree is managed by a too and has a among its claimants,
\* also the record of a <div> whose tabindex was removed before a walked it.
\* (Violated through the stale root of C5: a root whose marker was removed
\* outside the document is not adopted by a root activated around it.)
C22_AdoptionSuperset ==
  Quiescent =>
    \A a, b \in Elements :
      (ActiveRoot(a) /\ ActiveRoot(b) /\ StrictlyInside(b, a))
      => \A r \in rootObjs[inertRoots[b]].managed :
           (elementObjs[r].el # None /\ Contains(children, a, elementObjs[r].el))
           => /\ r \in rootObjs[inertRoots[a]].managed
              /\ inertRoots[a] \in elementObjs[r].inertRoots

\* C23. Activation registers the whole subtree: when setInert(r, true)
\* returns for an element that was not in the root map, r is in the root
\* map and carries inert and aria-hidden="true", and every element of r's
\* subtree, r included, that matched the whitelist or carried a tabindex
\* attribute has a record in r's managed set with r among its claimants.
C23_ActivationRegistersSubtree ==
  [][\A r \in RootCandidates :
       (CallsSetInert(r, TRUE) /\ ~ActiveRoot(r))
       => /\ ActiveRoot(r)'
          /\ inertAttr'[r]
          /\ ariaHidden'[r] = "true"
          /\ thrown' = NoErr
          /\ \A e \in Elements :
               (Contains(children, r, e) /\ (e \in buttons \/ tabindex[e] # None))
               => /\ LiveRecord(e)'
                  /\ managedElements'[e] \in rootObjs'[inertRoots'[r]].managed
                  /\ inertRoots'[r] \in RecordOf(e)'.inertRoots]_vars

\* A.inert = true was called on the inactive A; the <div tabindex> x deep in
\* its subtree is registered with A
C23_Witness ==
  /\ last = [op |-> "inert=", el |-> "A", val |-> "true", was |-> "false"]
  /\ ops = 1
  /\ StrictlyInside("B", "A") /\ StrictlyInside("x", "B")
  /\ "x" \notin buttons /\ authored["x"] = "0" /\ "x" \in before.focusable
  /\ ActiveRoot("A") /\ inertAttr["A"] /\ ariaHidden["A"] = "true"
  /\ LiveRecord("x")
  /\ managedElements["x"] \in rootObjs[inertRoots["A"]].managed
  /\ tabindex["x"] = None

\* C24. ensureUntabbable is idempotent: for every live record, in every
\* state of its element, calling ensureUntabbable twice leaves the elements'
\* tabindex attributes and the record's saved tabindex (and whether one is
\* saved) as calling it once does.
\* (Violated: on a <button> without tabindex and nothing saved, the first
\* call writes tabindex="-1" and the second saves that -1.)
C24_EnsureUntabbableIdempotent ==
  \A r \in ObjIds :
    (elementObjs[r].used /\ ~elementObjs[r].destroyed)
    => LET same(W1, W2) ==
             /\ W1.tab = W2.tab
             /\ W1.err = W2.err
             /\ W1.recs[r].hasSaved = W2.recs[r].hasSaved
             /\ W1.recs[r].hasSaved => W1.recs[r].saved = W2.recs[r].saved
           again(W1) == same(W1, ensureUntabbable(W1, r))
       IN again(ensureUntabbable(World, r))

\* C25. Whitelisted versus non-whitelisted: while an element is managed and
\* its author has not written its tabindex since, a whitelisted element
\* carries tabindex="-1" with the author's value, if there is one, saved; an
\* element outside the whitelist that carried an explicit tabindex has no
\* tabindex attribute and the author's value saved. No author's value is lost.
C25_WhitelistAsymmetry ==
  Quiescent =>
    \A e \in Elements :
      (LiveRecord(e) /\ ~rewritten[e] /\ Focusable(e))
      => IF e \in buttons
         THEN /\ tabindex[e] = "-1"
              /\ authored[e] # None
                 => /\ RecordOf(e).hasSaved
                    /\ RecordOf(e).saved = ParseInt(authored[e])
         ELSE /\ tabindex[e] = None
              /\ RecordOf(e).hasSaved
              /\ RecordOf(e).saved = ParseInt(authored[e])

\* the fixture's #fake-button, a <div tabindex="0"> inside an inert region at
\* startup: the attribute is gone and 0 is saved
C25_Witness ==
  /\ last.op = "new InertManager"
  /\ "x" \notin buttons
  /\ authored["x"] = "0"
  /\ LiveRecord("x")
  /\ tabindex["x"] = None
  /\ RecordOf("x").hasSaved
  /\ RecordOf("x").saved = 0
  /\ IsUnfocusable("x")

\* ------------------------------- moving an element and writing its tabindex

\* node.remove(), within MaxMoveOps operations
MoveRemoveChild(node) ==
  /\ notifying = <<>> /\ ops < MaxMoveOps
  /\ ParentOf(children, node) # None
  /\ Commit(RemoveChildW(World, node))
  /\ last' = [op |-> "remove", el |-> node, val |-> None,
               was |-> ParentOf(children, node)]
  /\ before' = Snapshot
  /\ ops' = ops + 1
  /\ UNCHANGED <<notifying, authored, rewritten>>

\* parent.appendChild(node) for a detached node, within MaxMoveOps operations
MoveAppendChild(parent, node) ==
  /\ notifying = <<>> /\ ops < MaxMoveOps
  /\ ParentOf(children, node) = None
  /\ ~Contains(children, node, parent)
  /\ Commit(AppendChildW(World, parent, node))
  /\ last' = [op |-> "appendChild", el |-> node, val |-> parent, was |-> None]
  /\ before' = Snapshot
  /\ ops' = ops + 1
  /\ UNCHANGED <<notifying, authored, rewritten>>

\* element.setAttribute('tabindex', v), within MaxMoveOps operations
MoveSetTabindex(e, v) ==
  /\ notifying = <<>> /\ ops < MaxMoveOps
  /\ Commit(SetTabindexAttr(World, e, v))
  /\ authored' = [authored EXCEPT ![e] = v]
  /\ rewritten' = [rewritten EXCEPT ![e] = managedElements[e] # NoObj]
  /\ last' = [op |-> "setAttribute tabindex", el |-> e, val |-> v, was |-> None]
  /\ before' = Snapshot
  /\ ops' = ops + 1
  /\ UNCHANGED notifying

MoveNext ==
  \/ \E n \in Leaves : MoveRemoveChild(n)
  \/ \E p \in Containers, n \in Leaves : MoveAppendChild(p, n)
  \/ \E e \in Leaves, v \in TabInputs : MoveSetTabindex(e, v)
  \/ Deliver

\* the started program under remove, appendChild and setAttribute('tabindex')
\* on the leaf
MoveSpec == Init /\ [][MoveNext]_vars

\* the page script's last operation set tabindex of e to a value other than
\* -1 while e had a record and lay in the subtree of a root of the root map
\* that carries the marker, and every batch since has been delivered
Reassigned(e) ==
  /\ Quiescent
  /\ last.op = "setAttribute tabindex"
  /\ last.el = e
  /\ last.val # "-1"
  /\ rewritten[e]
  /\ \E r \in before.roots : inertAttr[r] /\ StrictlyInside(e, r)

\* C26. Tabindex reassigned while inert: when tabindex of an element managed
\* by an active root is set to w # -1, then once the batch is delivered the
\* element is unfocusable again and its record has saved w; and element.inert
\* = false on the record's only claimant then leaves the element with
\* tabindex w (as a number: "01" comes back as "1").
\* (Violated with three operations: x.remove(), A.appendChild(x) and the
\* write in one batch; the destructor run for the removal writes the old
\* saved value over the author's.)
C26_ReassignedWhileInert ==
  [][\A e \in Elements :
       /\ Reassigned(e)'
          => /\ IsUnfocusable(e)'
             /\ LiveRecord(e)'
             /\ RecordOf(e)'.hasSaved
             /\ RecordOf(e)'.saved = ParseInt(last'.val)
       /\ \A r \in RootCandidates :
            ( /\ Reassigned(e)
              /\ CallsSetInert(r, FALSE)
              /\ ActiveRoot(r)
              /\ RecordOf(e).inertRoots = {inertRoots[r]} )
            => /\ tabindex'[e] # None
               /\ ParseInt(tabindex'[e]) = ParseInt(last.val)
               /\ ~HasRecord(e)']_vars

\* the page script's last operation removed n from the subtree of R, a root
\* of the root map that carries the marker, and every batch since has been
\* delivered
RemovedFrom(n, R) ==
  /\ Quiescent
  /\ last.op = "remove"
  /\ last.el = n
  /\ R \in before.roots
  /\ inertAttr[R]
  /\ R # n
  /\ Contains(children, R, last.was)

\* a root of the root map inside the removed subtree of n has e in its subtree
ClaimedWithin(n, e) ==
  \E q \in Elements :
    ActiveRoot(q) /\ Contains(children, n, q) /\ Contains(children, q, e)

\* C27. Removal from an inert subtree: once the batch of n.remove() is
\* delivered, a root R from whose subtree n was removed claims no element of
\* n's subtree; an element there that no root inside the removed subtree
\* claims has its authored tabindex and its own focus() back and no record;
\* one that such a root claims stays unfocusable.
\* (Violated through C3: a <button> without tabindex that two roots claimed
\* comes back with tabindex="-1".)
C27_RemovalFromInertSubtree ==
  \A n, R \in Elements :
    RemovedFrom(n, R)
    => \A e \in Elements :
         Contains(children, n, e)
         => /\ ActiveRoot(R)
               => \A r \in rootObjs[inertRoots[R]].managed : elementObjs[r].el # e
            /\ HasRecord(e) => inertRoots[R] \notin RecordOf(e).inertRoots
            /\ (~ClaimedWithin(n, e) /\ ~rewritten[e])
               => /\ ~HasRecord(e)
                  /\ (tabindex[e] = None) = (authored[e] = None)
                  /\ authored[e] # None
                     => ParseInt(tabindex[e]) = ParseInt(authored[e])
                  /\ ~focusOverridden[e]
            /\ (ClaimedWithin(n, e) /\ Focusable(e))
               => /\ LiveRecord(e)
                  /\ IsUnfocusable(e)

\* the page script's last operation wrote or removed the marker of e, an
\* element of the document, and every batch since has been delivered
MarkerSettled(e) ==
  /\ Quiescent
  /\ last.op \in {"setAttribute inert", "removeAttribute inert"}
  /\ last.el = e
  /\ Contains(children, Body, e)

\* C28. Marker synchronisation: the Manager, processing a change record of
\* the inert attribute, leaves the target in the root map exactly when it
\* carries the attribute then; so once the batches are delivered an element
\* of the document whose marker was last added is active and one whose marker
\* was last removed is inactive, whatever was pending when that was done
\* (added and removed again: inactive; removed and added again: active).
C28_MarkerSynchronisation ==
  \A e \in RootCandidates :
    /\ LET synced(W1) ==
              /\ W1.err \in {NoErr, IdsExhausted}
              /\ W1.err = NoErr => (W1.mRoots[e] # NoObj) = inertAttr[e]
       IN synced(watchForInertRecord(World, AttrRecord(e, "inert")))
    /\ MarkerSettled(e) => ActiveRoot(e) = inertAttr[e]

\* A's marker was removed while A, marked, was not in the root map yet, and
\* A is inactive after the batch
C28_Witness ==
  /\ MarkerSettled("A")
  /\ ops = 2
  /\ last.op = "removeAttribute inert"
  /\ "A" \notin before.roots
  /\ ~inertAttr["A"]
  /\ ~ActiveRoot("A")

\* C29. deregister(element, root): on an element without a record it returns
\* null and leaves the root map, the element map and every record as they
\* were; on an element with a record it returns that record, takes root out
\* of the claimants, and drops the element from the element map exactly when
\* the record was destroyed thereby, which happens exactly when no claimant
\* is left; a root that was no claimant never destroys the record.
C29_DeregisterContract ==
  \A e \in Elements, q \in ObjIds :
    LET r == managedElements[e]
        contract(W, W1) ==
          /\ W1.err = NoErr
          /\ W1.mRoots = W.mRoots
          /\ W1.roots = W.roots
          /\ \A d \in Elements \ {e} : W1.mElems[d] = W.mElems[d]
          /\ IF r = NoObj
             THEN /\ deregisterReturns(W, e, q) = NoObj
                  /\ W1.mElems = W.mElems
                  /\ W1.recs = W.recs
                  /\ W1.tab = W.tab
             ELSE /\ deregisterReturns(W, e, q) = r
                  /\ \A d \in ObjIds \ {r} : W1.recs[d] = W.recs[d]
                  /\ W1.recs[r].destroyed = (W.recs[r].inertRoots \ {q} = {})
                  /\ (W1.mElems[e] = NoObj) = W1.recs[r].destroyed
                  /\ ~W1.recs[r].destroyed
                     => /\ W1.mElems[e] = r
                        /\ W1.recs[r].inertRoots = W.recs[r].inertRoots \ {q}
                  /\ q \notin W.recs[r].inertRoots => ~W1.recs[r].destroyed
        apply(W) == contract(W, deregister(W, e, q))
    IN apply(World)

\* B's handler has deregistered the removed x, which A still claims: the
\* record is alive and in the element map
C29_Witness ==
  /\ last.op = "remove"
  /\ last.el = "x"
  /\ last.was = "B"
  /\ StrictlyInside("B", "A")
  /\ ActiveRoot("A")
  /\ ActiveRoot("B")
  /\ LiveRecord("x")
  /\ RecordOf("x").inertRoots = {inertRoots["A"]}
  /\ managedElements["x"] \notin rootObjs[inertRoots["B"]].managed

\* C30. A record's destructor invoked a second time signals an error and
\* changes nothing; and the program never invokes the destructor of a record
\* twice: no call or callback of it raises the error of a destroyed record.
C30_DestructorOnce ==
  /\ thrown # DestroyedError
  /\ \A r \in ObjIds :
       (elementObjs[r].used /\ ~elementObjs[r].destroyed)
       => LET second(W1) ==
                /\ W1.err = NoErr
                /\ W1.recs[r].destroyed
                /\ InertElementDestructor(W1, r) = [W1 EXCEPT !.err = DestroyedError]
          IN second(InertElementDestructor(World, r))

\* x, claimed by A and by B, was removed; both roots deregistered it, the
\* record was destroyed by the second deregistration and nothing was thrown
C30_Witness ==
  /\ Quiescent
  /\ last.op = "remove"
  /\ last.el = "x"
  /\ last.was = "B"
  /\ before.roots = {"A", "B"}
  /\ StrictlyInside("B", "A")
  /\ "x" \in before.focusable
  /\ ops = 1
  /\ ~HasRecord("x")
  /\ rootObjs[inertRoots["A"]].managed = {}
  /\ rootObjs[inertRoots["B"]].managed = {}
  /\ thrown = NoErr

\* the observer o is registered on some node, or has records queued
Subscribed(o) ==
  \/ o \in Range(observers)
  \/ queue[o] # <<>>
  \/ \E t \in transient : t[1] = o

\* C31. Subscription cancelled on deactivation: a root that has left the root
\* map has no registration and no queued record left, neither those queued
\* before its destructor ran nor those of the attribute changes the
\* destructor makes; so every observer that can still be called back belongs
\* to a root of the root map, and no handler runs on a destroyed root (which
\* would raise a TypeError on its deleted fields).
C31_SubscriptionCancelled ==
  /\ thrown # TypeError
  /\ \A o \in ObjIds :
       Subscribed(o)
       => /\ rootObjs[o].used
          /\ rootObjs[o].el # None
          /\ inertRoots[rootObjs[o].el] = o

\* x's tabindex was written inside the inert A, then A.inert = false: the
\* Manager has the marker's record pending, A's observers have nothing
C31_Witness ==
  /\ last = [op |-> "inert=", el |-> "A", val |-> "false", was |-> "true"]
  /\ ops = 2
  /\ rewritten["x"]
  /\ StrictlyInside("x", "A")
  /\ ~ActiveRoot("A")
  /\ queue[MgrObs] # <<>>
  /\ \A g \in 0..MaxGen : ~Subscribed(<<"A", g>>)

\* ------------------------------------------- composedTreeWalk on its own

\* The nodes of a document with a shadow tree:
\*   p > (h > (k1 > g, t, k2), q)      t is a text node
\*   s > d > (c > f, e)                s is a ShadowRoot, c a <content>
\* h hosts s or not, e is an element or a second <content>, and the children
\* of h are distributed to the <content> elements of its shadow tree.
WalkNodes == {"p", "h", "q", "k1", "t", "k2", "g", "s", "d", "c", "e", "f"}

WalkChildNodes ==
  [n \in WalkNodes |->
     CASE n = "p" -> <<"h", "q">>
       [] n = "h" -> <<"k1", "t", "k2">>
       [] n = "k1" -> <<"g">>
       [] n = "s" -> <<"d">>
       [] n = "d" -> <<"c", "e">>
       [] n = "c" -> <<"f">>
       [] OTHER -> <<>>]

\* sequences without repetition over a set
RECURSIVE Arrangements(_)
Arrangements(S) ==
  {<<>>} \cup UNION {{<<a>> \o r : r \in Arrangements(S \ {a})} : a \in S}

\* the documents: whether h hosts s, which nodes are <content> elements, and
\* the distributed nodes of each; a child of the host is distributed to at
\* most one <content>, and a <content> outside a shadow tree has none
WalkDocuments ==
  {[childNodes |-> WalkChildNodes,
    shadowRoot |-> [n \in WalkNodes |-> IF hosted /\ n = "h" THEN "s" ELSE None],
    content |-> contents,
    distributed |-> [n \in WalkNodes |-> IF n = "c" THEN dc
                                         ELSE IF n = "e" THEN de ELSE <<>>]] :
     hosted \in BOOLEAN, contents \in {{"c"}, {"c", "e"}},
     dc \in Arrangements({"k1", "k2"}), de \in Arrangements({"k1", "k2"})}

WellFormed(doc) ==
  /\ Range(doc.distributed["c"]) \cap Range(doc.distributed["e"]) = {}
  /\ "e" \notin doc.content => doc.distributed["e"] = <<>>
  /\ doc.shadowRoot["h"] = None
     => doc.distributed["c"] = <<>> /\ doc.distributed["e"] = <<>>

\* node.nodeType == Node.ELEMENT_NODE
IsElementNode(n) == n \notin {"s", "t"}

RECURSIVE composedTreeWalkHostChildren(_, _)
RECURSIVE WalkEachHostChildren(_, _)
\* A walk that, having descended into the shadow root of a host, goes on to
\* the host's own children.
composedTreeWalkHostChildren(doc, node) ==
  LET element == IF IsElementNode(node) THEN node ELSE None
      callback == IF element # None THEN <<element>> ELSE <<>>
      shadow == IF element # None /\ doc.shadowRoot[element] # None
                THEN composedTreeWalkHostChildren(doc, doc.shadowRoot[element])
                ELSE <<>>
  IN callback \o shadow \o
     (IF element # None /\ element \in doc.content
      THEN WalkEachHostChildren(doc, doc.distributed[element])
      ELSE WalkEachHostChildren(doc, doc.childNodes[node]))
WalkEachHostChildren(doc, nodes) ==
  IF nodes = <<>> THEN <<>>
  ELSE composedTreeWalkHostChildren(doc, Head(nodes))
         \o WalkEachHostChildren(doc, Tail(nodes))

RECURSIVE composedTreeWalkOf(_, _)
RECURSIVE WalkEach(_, _)
\* composedTreeWalk(node, callback): the sequence of the callback's arguments
composedTreeWalkOf(doc, node) ==
  LET element == IF IsElementNode(node) THEN node ELSE None
      callback == IF element # None THEN <<element>> ELSE <<>>
  IN callback \o
     (IF element # None /\ doc.shadowRoot[element] # None
      THEN composedTreeWalkOf(doc, doc.shadowRoot[element])
      ELSE IF element # None /\ element \in doc.content
      THEN WalkEach(doc, doc.distributed[element])
      ELSE WalkEach(doc, doc.childNodes[node]))
\* the loops over distributedNodes and over the child nodes
WalkEach(doc, nodes) ==
  IF nodes = <<>> THEN <<>>
  ELSE composedTreeWalkOf(doc, Head(nodes)) \o WalkEach(doc, Tail(nodes))

\* the document of the state
WalkDocument ==
  [childNodes |-> children, shadowRoot |-> before.shadowRoot,
   content |-> before.content, distributed |-> before.distributed]

\* a document and a start node, before the walk
WalkInit ==
  \E doc \in WalkDocuments, start \in WalkNodes :
    /\ WellFormed(doc)
    /\ children = doc.childNodes
    /\ before = [shadowRoot |-> doc.shadowRoot, content |-> doc.content,
                 distributed |-> doc.distributed]
    /\ last = [op |-> "load", el |-> start, val |-> None, was |-> None]
    /\ buttons = {}
    /\ tabindex = [e \in Elements |-> None]
    /\ inertAttr = [e \in Elements |-> FALSE]
    /\ ariaHidden = [e \in Elements |-> None]
    /\ focusOverridden = [e \in Elements |-> FALSE]
    /\ rootObjs = [q \in ObjIds |-> FreeRoot]
    /\ elementObjs = [r \in ObjIds |-> FreeRec]
    /\ inertRoots = None
    /\ managedElements = None
    /\ observers = <<>>
    /\ queue = [o \in ObserverIds |-> <<>>]
    /\ transient = {}
    /\ notifying = <<>>
    /\ thrown = NoErr
    /\ authored = [e \in Elements |-> None]
    /\ rewritten = [e \in Elements |-> FALSE]
    /\ everInside = {}
    /\ ops = 0

\* composedTreeWalk(start, visitor): last.was becomes the sequence of nodes
\* the visitor was called with
WalkCall ==
  /\ last.op = "load"
  /\ last' = [op |-> "composedTreeWalk", el |-> last.el, val |-> None,
               was |-> composedTreeWalkOf(WalkDocument, last.el)]
  /\ UNCHANGED <<children, buttons, tabindex, inertAttr, ariaHidden,
                 focusOverridden, rootObjs, elementObjs, inertRoots,
                 managedElements, observers, queue, transient, notifying,
                 thrown, authored, rewritten, before, everInside, ops>>

WalkNext == WalkCall

WalkSpec == WalkInit /\ [][WalkNext]_vars

\* the children of n in the composed tree: the shadow root for a host, the
\* distributed nodes for a <content>, the child nodes otherwise
ComposedChildren(doc, n) ==
  IF doc.shadowRoot[n] # None THEN <<doc.shadowRoot[n]>>
  ELSE IF n \in doc.content THEN doc.distributed[n]
  ELSE doc.childNodes[n]

RECURSIVE ComposedClosure(_, _, _)
\* S with what k steps along ComposedChildren reach from it
ComposedClosure(doc, S, k) ==
  IF k = 0 THEN S
  ELSE ComposedClosure(doc,
         S \cup UNION {Range(ComposedChildren(doc, n)) : n \in S}, k - 1)

\* the nodes of the composed subtree rooted at n
ComposedSubtree(doc, n) == ComposedClosure(doc, {n}, Cardinality(WalkNodes))

\* the nodes in whose subtree of the node trees n lies, n excluded, the host
\* of a shadow root counting as its parent; and the siblings of n
WalkAncestors(doc, n) ==
  LET Up(S) == S \cup {m \in WalkNodes :
                         \E c \in S : c \in Range(doc.childNodes[m])
                                        \/ doc.shadowRoot[m] = c}
  IN Up(Up(Up(Up({n})))) \ {n}
WalkSiblings(doc, n) ==
  {m \in WalkNodes \ {n} :
     \E q \in WalkNodes : {m, n} \subseteq Range(doc.childNodes[q])}

\* C32. Tree walk coverage: composedTreeWalk(start, visitor) calls the visitor
\* exactly once on each element of the composed subtree rooted at start and on
\* no other node, an element before its descendants and the composed children
\* of a node from left to right; never on a sibling or an ancestor of start;
\* below a shadow host it visits the shadow tree and not the host's own
\* children, unless they are distributed; at a <content> it visits the
\* distributed nodes in their order, not the <content>'s own children.
C32_TreeWalkCoverage ==
  last.op = "composedTreeWalk"
  => LET doc == WalkDocument
         start == last.el
         visited == last.was
         At(n) == CHOOSE i \in 1..Len(visited) : visited[i] = n
         Seen == Range(visited)
     IN /\ Seen = {n \in ComposedSubtree(doc, start) : IsElementNode(n)}
        /\ \A i, j \in 1..Len(visited) : visited[i] = visited[j] => i = j
        /\ \A a, b \in Seen :
             (a # b /\ b \in ComposedSubtree(doc, a)) => At(a) < At(b)
        /\ \A n \in ComposedSubtree(doc, start) :
             \A i, j \in 1..Len(ComposedChildren(doc, n)) :
               i < j
               => \A a \in Seen \cap ComposedSubtree(doc, ComposedChildren(doc, n)[i]),
                     b \in Seen \cap ComposedSubtree(doc, ComposedChildren(doc, n)[j]) :
                    At(a) < At(b)
        /\ Seen \cap (WalkAncestors(doc, start) \cup WalkSiblings(doc, start)) = {}
        /\ \A host \in Seen :
             doc.shadowRoot[host] # None
             => /\ Range(doc.childNodes[doc.shadowRoot[host]]) \subseteq Seen
                /\ \A k \in Range(doc.childNodes[host]) :
                     (\A c \in doc.content : k \notin Range(doc.distributed[c]))
                     => k \notin Seen
        /\ \A c \in Seen \cap doc.content :
             /\ SelectSeq(visited, LAMBDA n : n \in Range(doc.distributed[c]))
                  = doc.distributed[c]
             /\ Range(doc.childNodes[c]) \cap Seen = {}

\* the walk from the parent of a host whose children were distributed in
\* reverse order to two <content> elements of its shadow tree
C32_Witness ==
  /\ last.op = "composedTreeWalk"
  /\ last.el = "p"
  /\ before.shadowRoot["h"] = "s"
  /\ before.content = {"c", "e"}
  /\ before.distributed["c"] = <<"k2">>
  /\ before.distributed["e"] = <<"k1">>
  /\ last.was = <<"p", "h", "d", "c", "k2", "e", "k1", "g", "q">>

\* C33. Membership symmetry: after every call of the page script and every
\* mutation handler, a root is among the claimants of a record exactly when
\* the record is in the root's managed set; in particular no root holds a
\* record that does not name it.
C33_MembershipSymmetry ==
  \A q, r \in ObjIds :
    (q \in elementObjs[r].inertRoots) = (r \in rootObjs[q].managed)

\* x lay in B inside A, both roots; B.inert = false left x's record with A as
\* its only claimant and in A's managed set alone
C33_Witness ==
  /\ last = [op |-> "inert=", el |-> "B", val |-> "false", was |-> "true"]
  /\ StrictlyInside("B", "A")
  /\ StrictlyInside("x", "B")
  /\ "B" \in before.roots
  /\ ActiveRoot("A")
  /\ ~ActiveRoot("B")
  /\ LiveRecord("x")
  /\ RecordOf("x").inertRoots = {inertRoots["A"]}
  /\ rootObjs[inertRoots["A"]].managed = {managedElements["x"]}
  /\ \A g \in 0..MaxGen : rootObjs[<<"B", g>>].managed = {}

\* the root map is empty
NoRoots == \A e \in Elements : ~ActiveRoot(e)

\* C34. No leaked claims: after every call and every handler, each claimant
\* of each live record is a root of the root map; and whenever the root map
\* is empty the element map is empty, no element has the polyfill's focus
\* override, and no element whose tabindex the author left alone while it
\* was managed carries a tabindex of -1 that its author did not write.
\* (Violated through C3: a <button> without tabindex that two roots claimed
\* keeps tabindex="-1" when both are gone.)
C34_NoLeakedClaims ==
  /\ \A r \in ObjIds :
       (elementObjs[r].used /\ ~elementObjs[r].destroyed)
       => \A q \in elementObjs[r].inertRoots :
            \E e \in Elements : inertRoots[e] = q
  /\ NoRoots
     => \A e \in Elements :
          /\ ~HasRecord(e)
          /\ ~focusOverridden[e]
          /\ (tabindex[e] = "-1" /\ ~rewritten[e])
             => /\ authored[e] # None
                /\ ParseInt(authored[e]) = -1

\* the inert getter: element.hasAttribute('inert')
GetInert(e) == inertAttr[e]

\* C35. Property write/read agreement: from the return of element.inert = v
\* until the page script's next operation, through the delivery of every
\* pending batch, reading element.inert yields v, whatever records of the
\* element's marker were pending when the assignment was made.
\* (Violated: with the marker removed directly and its record pending,
\* element.inert = true returns at once because the element is still in the
\* root map, and the getter reads the absent attribute.)
C35_WriteReadAgreement ==
  \A e \in Elements :
    (last.op = "inert=" /\ last.el = e) => GetInert(e) = (last.val = "true")

====
